---- MODULE Spec2Model ----
(***************************************************************************)
(* The in-memory catalog of iox_catalog (src/iox_catalog/src/mem.rs): the  *)
(* store MemCollections behind one tokio Mutex, the two kinds of handle    *)
(* (MemTxnInner::Txn with a private stage, MemTxnInner::NoTxn on the live  *)
(* store), and the repository operations, each an operator from a store to *)
(* the store it leaves and the result it returns.                          *)
(***************************************************************************)
EXTENDS Integers, Sequences, FiniteSets, TLC

VARIABLES
    live,      \* MemCatalog.collections: the MemCollections behind the Mutex
    holder,    \* the task whose OwnedMutexGuard holds the Mutex, or NoTask
    waitq,     \* tasks suspended in lock_owned().await, in arrival order
    handle,    \* per task: the MemTxn it owns (kind, stage, finalized)
    res,       \* the last call: operation, task, arguments and what it returned
    now,       \* time_provider.now()
    hist,      \* history of the run (what was allocated, staged, returned)
    cache,     \* TombstoneCache: per table, the entry of the cache backend
    getting,   \* TombstoneCache::get in flight: what it waits to load
    planner    \* the request the query planner is working on, and how far it is

vars == <<live, holder, waitq, handle, res, now, hist, cache, getting, planner>>

-----------------------------------------------------------------------------
(* Bounds of the model *)

\* tasks that call the catalog concurrently
NumTasks == 2
\* tombstone sequence numbers the callers use: 1..MaxSeq
MaxSeq == 2
\* largest reading of the clock
MaxTime == 2
\* largest value update_table_limit / update_column_limit are called with;
\* callers name one table (column) more than that
MaxLimit == 2
\* rows the callers put in a store in which rows of every kind are created
MaxRows == 2
\* the parquet files of a catalog read by the compactor's partition queries
MaxFiles == 3
\* the attempts of one load of the tombstone cache that the catalog fails
MaxFailures == 2

\* Namespace::max_tables and max_columns_per_table of a new namespace
DefaultMaxTables == 10000
DefaultMaxColumnsPerTable == 1000

Tasks == 1..NumTasks
NoTask == 0

TopicNames == {"a", "b"}
NamespaceNames == {"ns1", "ns2"}
\* a namespace name no namespace is created with
UnknownNamespace == "ns0"
\* table names, written as numbers
TableNames == 1..(MaxLimit + 1)
\* create_or_get requests for tables: every name in namespace 1, one name in
\* namespace 2, one in a namespace that does not exist
TableRequests == {<<n, 1>> : n \in TableNames} \cup {<<1, 2>>, <<1, 3>>}
\* column names, written as numbers
ColumnNames == 1..(MaxLimit + 1)
\* create_or_get requests for columns: every name as a tag of table 1, the
\* first name with another type, the first name in table 2, and one in a
\* table that does not exist
ColumnRequests ==
    {<<n, 1, "tag">> : n \in ColumnNames}
        \cup {<<1, 1, "i64">>, <<1, 2, "i64">>, <<1, 3, "tag">>}

-----------------------------------------------------------------------------
(* Helpers for Vec<T> *)

\* query pool names
QueryPoolNames == {"p", "q"}

\* shards.create_or_get requests: <<topic_id, shard_index>>
ShardRequests == {<<1, 1>>, <<1, 2>>, <<2, 1>>}

\* partitions.create_or_get requests: <<key, shard_id, table_id>>
PartitionRequests == {<<"k1", 1, 1>>, <<"k2", 1, 1>>, <<"k1", 1, 2>>}

\* tombstones.create_or_get requests:
\* <<table_id, shard_id, sequence_number, min_time, max_time>>
TombstoneRequests ==
    {<<1, 1, q, 1, MaxTime>> : q \in 1..MaxSeq}
        \cup {<<1, 1, 1, MaxTime, MaxTime>>, <<2, 1, 1, 1, MaxTime>>}

\* tombstones.remove requests: the ids to remove
TombstoneIdSets == {{1}, {2}}

\* the tombstones and the parquet files that are marked as processed
ProcessedTombstoneRequests == {<<1, 1, q, 1, 1>> : q \in 1..2}
ProcessedObjectStoreIds == {"u1", "u2"}
\* processed_tombstones.create requests: <<parquet_file_id, tombstone_id>>
ProcessedRequests == (1..2) \X (1..2)

\* the timestamps of time ranges
Times == 0..(MaxTime + 1)

\* list_tombstones_for_time_range requests:
\* <<shard_id, table_id, sequence_number, min_time, max_time>>
TimeRangeRequests ==
    {<<1, 1, q, a, b>> : q \in 0..MaxSeq, a \in Times, b \in Times}
        \cup {<<1, 2, 0, 0, MaxTime>>, <<2, 1, 0, 0, MaxTime>>}

\* object store ids (UUIDs) of the parquet files the callers create
ObjectStoreIds == {"u1", "u2", "u3"}

\* ParquetFileParams of the file with this object store id
ParquetFileParamsOf(object_store_id) ==
    [ shard_id            |-> 1,
      namespace_id        |-> 1,
      table_id            |-> 1,
      partition_id        |-> 1,
      object_store_id     |-> object_store_id,
      max_sequence_number |-> 1,
      min_time            |-> 1,
      max_time            |-> MaxTime,
      file_size_bytes     |-> 1,
      row_count           |-> 1,
      compaction_level    |-> 0,
      created_at          |-> 0,
      column_set          |-> {1} ]

\* the ids flag_for_delete is called with
ParquetFileIds == 1..3

\* the tables the tombstone cache is asked for
CacheTables == 1..2

\* the max_tombstone_sequence_number the tombstone cache is asked with: None
\* is <<>>, Some(n) is <<n>>
MaxSeenSequences == {<<>>} \cup {<<n>> : n \in 1..MaxSeq}

\* the files a compactor's catalog is given: on shard 1 a partition with files
\* created at 1 and at MaxTime and a partition with a file created at 1, and
\* a partition of shard 2
CompactionFileParams ==
    { [ParquetFileParamsOf("u1") EXCEPT !.partition_id = 1, !.created_at = 1],
      [ParquetFileParamsOf("u2") EXCEPT !.partition_id = 1, !.created_at = MaxTime],
      [ParquetFileParamsOf("u3") EXCEPT !.partition_id = 2, !.created_at = 1],
      [ParquetFileParamsOf("u4") EXCEPT !.partition_id = 3, !.created_at = 1,
                                        !.shard_id = 2] }

\* the times the compactor's partition queries are asked with: before, at and
\* after the times the files were created at
CompactionTimes == {0, 1, MaxTime, MaxTime + 1}

Min(S) == CHOOSE x \in S : \A y \in S : x <= y
Max(S) == CHOOSE x \in S : \A y \in S : x >= y

\* iter().find(p) over the indices I whose element satisfies p: the first such
\* index, 0 for None
First(I) == IF I = {} THEN 0 ELSE Min(I)

Range(seq) == {seq[i] : i \in 1..Len(seq)}

\* the orders in which the elements of the finite set S can be iterated
Orderings(S) ==
    {o \in [1..Cardinality(S) -> S] : \A i, j \in DOMAIN o : i # j => o[i] # o[j]}

\* Iterator::take(n)
Take(seq, n) == SubSeq(seq, 1, IF n < Len(seq) THEN n ELSE Len(seq))

-----------------------------------------------------------------------------
(* The store *)

\* MemCollections::default()
EmptyCollections ==
    [ topics               |-> <<>>,
      query_pools          |-> <<>>,
      namespaces           |-> <<>>,
      tables               |-> <<>>,
      columns              |-> <<>>,
      shards               |-> <<>>,
      partitions           |-> <<>>,
      skipped_compactions  |-> <<>>,
      tombstones           |-> <<>>,
      parquet_files        |-> <<>>,
      processed_tombstones |-> <<>> ]

\* what a repository call returns: Ok(val) or Err(err) with the error's fields
Ok(v) == [err |-> "Ok", val |-> v]
Err(e, v) == [err |-> e, val |-> v]

\* what the last call left behind: the operation, the task that made it, its
\* arguments and what it returned
Result(op, task, args, r) == [op |-> op, task |-> task, args |-> args, r |-> r]

-----------------------------------------------------------------------------
(* TopicMetadataRepo *)

TopicCreateOrGet(s, name) ==
    LET i == First({j \in 1..Len(s.topics) : s.topics[j].name = name})
        topic == [id |-> Len(s.topics) + 1, name |-> name]
    IN  IF i # 0
        THEN [st |-> s, r |-> Ok(s.topics[i])]
        ELSE [st |-> [s EXCEPT !.topics = Append(@, topic)], r |-> Ok(topic)]

\* get_by_name: Some(topic) as <<topic>>, None as <<>>
TopicGetByName(s, name) ==
    LET i == First({j \in 1..Len(s.topics) : s.topics[j].name = name})
    IN  [st |-> s, r |-> Ok(IF i # 0 THEN <<s.topics[i]>> ELSE <<>>)]

-----------------------------------------------------------------------------
(* QueryPoolRepo *)

QueryPoolCreateOrGet(s, name) ==
    LET i == First({j \in 1..Len(s.query_pools) : s.query_pools[j].name = name})
        pool == [id |-> Len(s.query_pools) + 1, name |-> name]
    IN  IF i # 0
        THEN [st |-> s, r |-> Ok(s.query_pools[i])]
        ELSE [st |-> [s EXCEPT !.query_pools = Append(@, pool)], r |-> Ok(pool)]

-----------------------------------------------------------------------------
(* NamespaceRepo *)

NamespaceCreate(s, name, retention_duration, topic_id, query_pool_id) ==
    LET namespace == [ id                    |-> Len(s.namespaces) + 1,
                       name                  |-> name,
                       topic_id              |-> topic_id,
                       query_pool_id         |-> query_pool_id,
                       retention_duration    |-> retention_duration,
                       max_tables            |-> DefaultMaxTables,
                       max_columns_per_table |-> DefaultMaxColumnsPerTable ]
    IN  IF \E j \in 1..Len(s.namespaces) : s.namespaces[j].name = name
        THEN [st |-> s, r |-> Err("NameExists", [name |-> name])]
        ELSE [st |-> [s EXCEPT !.namespaces = Append(@, namespace)],
              r  |-> Ok(namespace)]

NamespaceUpdateTableLimit(s, name, new_max) ==
    LET i == First({j \in 1..Len(s.namespaces) : s.namespaces[j].name = name})
    IN  IF i # 0
        THEN [st |-> [s EXCEPT !.namespaces[i].max_tables = new_max],
              r  |-> Ok([s.namespaces[i] EXCEPT !.max_tables = new_max])]
        ELSE [st |-> s, r |-> Err("NamespaceNotFoundByName", [name |-> name])]

NamespaceUpdateColumnLimit(s, name, new_max) ==
    LET i == First({j \in 1..Len(s.namespaces) : s.namespaces[j].name = name})
    IN  IF i # 0
        THEN [st |-> [s EXCEPT !.namespaces[i].max_columns_per_table = new_max],
              r  |-> Ok([s.namespaces[i] EXCEPT !.max_columns_per_table = new_max])]
        ELSE [st |-> s, r |-> Err("NamespaceNotFoundByName", [name |-> name])]

-----------------------------------------------------------------------------
(* TableRepo *)

\* tables.iter().filter(|t| t.namespace_id == namespace_id).count()
TablesCount(s, namespace_id) ==
    Cardinality({j \in 1..Len(s.tables) : s.tables[j].namespace_id = namespace_id})

\* a limit check that lets one table too many in
TableCreateOrGetOffByOne(s, name, namespace_id) ==
    LET n == First({j \in 1..Len(s.namespaces) : s.namespaces[j].id = namespace_id})
        i == First({j \in 1..Len(s.tables) :
                       s.tables[j].name = name /\ s.tables[j].namespace_id = namespace_id})
        table == [id |-> Len(s.tables) + 1, namespace_id |-> namespace_id, name |-> name]
    IN  IF n = 0
        THEN [st |-> s, r |-> Err("NamespaceNotFoundByName", [name |-> ""])]
        ELSE IF TablesCount(s, namespace_id) > s.namespaces[n].max_tables
        THEN [st |-> s, r |-> Err("TableCreateLimitError",
                                  [table_name |-> name, namespace_id |-> namespace_id])]
        ELSE IF i # 0
        THEN [st |-> s, r |-> Ok(s.tables[i])]
        ELSE [st |-> [s EXCEPT !.tables = Append(@, table)], r |-> Ok(table)]

\* the limit check as the first thing create_or_get does, then find-or-push
TableCreateOrGet(s, name, namespace_id) ==
    LET n == First({j \in 1..Len(s.namespaces) : s.namespaces[j].id = namespace_id})
        i == First({j \in 1..Len(s.tables) :
                       s.tables[j].name = name /\ s.tables[j].namespace_id = namespace_id})
        table == [id |-> Len(s.tables) + 1, namespace_id |-> namespace_id, name |-> name]
    IN  IF n = 0
        THEN [st |-> s, r |-> Err("NamespaceNotFoundByName", [name |-> ""])]
        ELSE IF TablesCount(s, namespace_id) >= s.namespaces[n].max_tables
        THEN [st |-> s, r |-> Err("TableCreateLimitError",
                                  [table_name |-> name, namespace_id |-> namespace_id])]
        ELSE IF i # 0
        THEN [st |-> s, r |-> Ok(s.tables[i])]
        ELSE [st |-> [s EXCEPT !.tables = Append(@, table)], r |-> Ok(table)]

-----------------------------------------------------------------------------
(* ColumnRepo *)

\* columns.iter().filter(|t| t.table_id == table_id).count()
ColumnsCount(s, table_id) ==
    Cardinality({j \in 1..Len(s.columns) : s.columns[j].table_id = table_id})

\* a limit check that counts the columns of every table
ColumnCreateOrGetCountsAll(s, name, table_id, column_type) ==
    LET t == First({j \in 1..Len(s.tables) : s.tables[j].id = table_id})
        n == IF t = 0 THEN 0
             ELSE First({j \in 1..Len(s.namespaces) :
                            s.namespaces[j].id = s.tables[t].namespace_id})
        i == First({j \in 1..Len(s.columns) :
                       s.columns[j].name = name /\ s.columns[j].table_id = table_id})
        column == [ id          |-> Len(s.columns) + 1,
                    table_id    |-> table_id,
                    name        |-> name,
                    column_type |-> column_type ]
    IN  IF t = 0
        THEN [st |-> s, r |-> Err("TableNotFound", [id |-> table_id])]
        ELSE IF n = 0
        THEN [st |-> s, r |-> Err("NamespaceNotFoundByName", [name |-> ""])]
        ELSE IF Len(s.columns) >= s.namespaces[n].max_columns_per_table
        THEN [st |-> s, r |-> Err("ColumnCreateLimitError",
                                  [column_name |-> name, table_id |-> table_id])]
        ELSE IF i # 0
        THEN IF column_type = s.columns[i].column_type
             THEN [st |-> s, r |-> Ok(s.columns[i])]
             ELSE [st |-> s, r |-> Err("ColumnTypeMismatch",
                                       [ name     |-> name,
                                         existing |-> s.columns[i].column_type,
                                         new      |-> column_type ])]
        ELSE [st |-> [s EXCEPT !.columns = Append(@, column)], r |-> Ok(column)]

ColumnCreateOrGet(s, name, table_id, column_type) ==
    LET t == First({j \in 1..Len(s.tables) : s.tables[j].id = table_id})
        n == IF t = 0 THEN 0
             ELSE First({j \in 1..Len(s.namespaces) :
                            s.namespaces[j].id = s.tables[t].namespace_id})
        i == First({j \in 1..Len(s.columns) :
                       s.columns[j].name = name /\ s.columns[j].table_id = table_id})
        column == [ id          |-> Len(s.columns) + 1,
                    table_id    |-> table_id,
                    name        |-> name,
                    column_type |-> column_type ]
    IN  IF t = 0
        THEN [st |-> s, r |-> Err("TableNotFound", [id |-> table_id])]
        ELSE IF n = 0
        THEN [st |-> s, r |-> Err("NamespaceNotFoundByName", [name |-> ""])]
        ELSE IF ColumnsCount(s, table_id) >= s.namespaces[n].max_columns_per_table
        THEN [st |-> s, r |-> Err("ColumnCreateLimitError",
                                  [column_name |-> name, table_id |-> table_id])]
        ELSE IF i # 0
        THEN IF column_type = s.columns[i].column_type
             THEN [st |-> s, r |-> Ok(s.columns[i])]
             ELSE [st |-> s, r |-> Err("ColumnTypeMismatch",
                                       [ name     |-> name,
                                         existing |-> s.columns[i].column_type,
                                         new      |-> column_type ])]
        ELSE [st |-> [s EXCEPT !.columns = Append(@, column)], r |-> Ok(column)]

\* ColumnRepo::create_or_get_many: create_or_get of each request in turn, the
\* first error ends the loop and is returned
RECURSIVE ColumnCreateOrGetManyLoop(_, _, _)
ColumnCreateOrGetManyLoop(s, columns, out) ==
    IF columns = <<>> THEN [st |-> s, r |-> Ok(out)]
    ELSE LET column == ColumnCreateOrGet(s, Head(columns)[1], Head(columns)[2],
                                         Head(columns)[3])
         IN  IF column.r.err # "Ok" THEN column
             ELSE ColumnCreateOrGetManyLoop(column.st, Tail(columns),
                                            Append(out, column.r.val))

ColumnCreateOrGetMany(s, columns) == ColumnCreateOrGetManyLoop(s, columns, <<>>)

-----------------------------------------------------------------------------
(* ShardRepo *)

ShardCreateOrGet(s, topic_id, shard_index) ==
    LET i == First({j \in 1..Len(s.shards) :
                       s.shards[j].topic_id = topic_id
                       /\ s.shards[j].shard_index = shard_index})
        shard == [ id          |-> Len(s.shards) + 1,
                   topic_id    |-> topic_id,
                   shard_index |-> shard_index,
                   min_unpersisted_sequence_number |-> 0 ]
    IN  IF i # 0
        THEN [st |-> s, r |-> Ok(s.shards[i])]
        ELSE [st |-> [s EXCEPT !.shards = Append(@, shard)], r |-> Ok(shard)]

-----------------------------------------------------------------------------
(* PartitionRepo *)

PartitionCreateOrGet(s, key, shard_id, table_id) ==
    LET i == First({j \in 1..Len(s.partitions) :
                       /\ s.partitions[j].partition_key = key
                       /\ s.partitions[j].shard_id = shard_id
                       /\ s.partitions[j].table_id = table_id})
        p == [ id            |-> Len(s.partitions) + 1,
               shard_id      |-> shard_id,
               table_id      |-> table_id,
               partition_key |-> key,
               sort_key      |-> <<>>,
               persisted_sequence_number |-> <<>> ]
    IN  IF i # 0
        THEN [st |-> s, r |-> Ok(s.partitions[i])]
        ELSE [st |-> [s EXCEPT !.partitions = Append(@, p)], r |-> Ok(p)]

\* PartitionRepo::update_sort_key
PartitionUpdateSortKey(s, partition_id, sort_key) ==
    LET i == First({j \in 1..Len(s.partitions) : s.partitions[j].id = partition_id})
    IN  IF i = 0
        THEN [st |-> s, r |-> Err("PartitionNotFound", [id |-> partition_id])]
        ELSE [st |-> [s EXCEPT !.partitions[i].sort_key = sort_key],
              r  |-> Ok([s.partitions[i] EXCEPT !.sort_key = sort_key])]

-----------------------------------------------------------------------------
(* The overlap test of list_tombstones_for_time_range, level_1 and          *)
(* count_by_overlaps_with_level_0 / _1: a stored range min_time..max_time   *)
(* against a query range q_min_time..q_max_time                             *)

\* a test that forgets the stored ranges that start inside the query range
OverlapsStartOnly(min_time, max_time, q_min_time, q_max_time) ==
    min_time <= q_min_time /\ max_time >= q_min_time

Overlaps(min_time, max_time, q_min_time, q_max_time) ==
    \/ (min_time <= q_min_time /\ max_time >= q_min_time)
    \/ (min_time > q_min_time /\ min_time <= q_max_time)

\* PartitionRepo::record_skipped_compaction: the record of the partition is
\* replaced, or pushed when there is none
PartitionRecordSkippedCompaction(s, partition_id, reason, skipped_at) ==
    LET i == First({j \in 1..Len(s.skipped_compactions) :
                       s.skipped_compactions[j].partition_id = partition_id})
    IN  [ st |-> IF i # 0
                 THEN [s EXCEPT !.skipped_compactions[i].reason = reason,
                                !.skipped_compactions[i].skipped_at = skipped_at]
                 ELSE [s EXCEPT !.skipped_compactions =
                          Append(@, [ partition_id |-> partition_id,
                                      reason       |-> reason,
                                      skipped_at   |-> skipped_at ])],
          r  |-> Ok(<<>>) ]

-----------------------------------------------------------------------------
(* TombstoneRepo *)

\* a lookup that forgets the table of the tombstone
TombstoneCreateOrGetAnyTable(s, table_id, shard_id, sequence_number, min_time, max_time) ==
    LET i == First({j \in 1..Len(s.tombstones) :
                       /\ s.tombstones[j].shard_id = shard_id
                       /\ s.tombstones[j].sequence_number = sequence_number})
        t == [ id              |-> Len(s.tombstones) + 1,
               table_id        |-> table_id,
               shard_id        |-> shard_id,
               sequence_number |-> sequence_number,
               min_time        |-> min_time,
               max_time        |-> max_time ]
    IN  IF i # 0
        THEN [st |-> s, r |-> Ok(s.tombstones[i])]
        ELSE [st |-> [s EXCEPT !.tombstones = Append(@, t)], r |-> Ok(t)]

TombstoneCreateOrGet(s, table_id, shard_id, sequence_number, min_time, max_time) ==
    LET i == First({j \in 1..Len(s.tombstones) :
                       /\ s.tombstones[j].table_id = table_id
                       /\ s.tombstones[j].shard_id = shard_id
                       /\ s.tombstones[j].sequence_number = sequence_number})
        t == [ id              |-> Len(s.tombstones) + 1,
               table_id        |-> table_id,
               shard_id        |-> shard_id,
               sequence_number |-> sequence_number,
               min_time        |-> min_time,
               max_time        |-> max_time ]
    IN  IF i # 0
        THEN [st |-> s, r |-> Ok(s.tombstones[i])]
        ELSE [st |-> [s EXCEPT !.tombstones = Append(@, t)], r |-> Ok(t)]

\* a remove that leaves the processed tombstones alone
TombstoneRemoveNoCascade(s, tombstone_ids) ==
    [ st |-> [s EXCEPT
                !.tombstones =
                    SelectSeq(@, LAMBDA ts : ts.id \notin tombstone_ids)],
      r  |-> Ok(<<>>) ]

TombstoneRemove(s, tombstone_ids) ==
    [ st |-> [s EXCEPT
                !.processed_tombstones =
                    SelectSeq(@, LAMBDA pt : pt.tombstone_id \notin tombstone_ids),
                !.tombstones =
                    SelectSeq(@, LAMBDA ts : ts.id \notin tombstone_ids)],
      r  |-> Ok(<<>>) ]

\* TombstoneRepo::list_by_table
TombstoneListByTable(s, table_id) ==
    [ st |-> s,
      r  |-> Ok(SelectSeq(s.tombstones, LAMBDA t : t.table_id = table_id)) ]

\* a list that also takes the tombstones at the sequence number
TombstoneListForTimeRangeInclusive(s, shard_id, table_id, sequence_number, min_time, max_time) ==
    [ st |-> s,
      r  |-> Ok(SelectSeq(s.tombstones,
                          LAMBDA t : /\ t.shard_id = shard_id
                                     /\ t.table_id = table_id
                                     /\ t.sequence_number >= sequence_number
                                     /\ Overlaps(t.min_time, t.max_time,
                                                 min_time, max_time))) ]

\* list_tombstones_for_time_range
TombstoneListForTimeRange(s, shard_id, table_id, sequence_number, min_time, max_time) ==
    [ st |-> s,
      r  |-> Ok(SelectSeq(s.tombstones,
                          LAMBDA t : /\ t.shard_id = shard_id
                                     /\ t.table_id = table_id
                                     /\ t.sequence_number > sequence_number
                                     /\ Overlaps(t.min_time, t.max_time,
                                                 min_time, max_time))) ]

-----------------------------------------------------------------------------
(* ParquetFileRepo; to_delete is None as <<>>, Some(t) as <<t>> *)

\* a create that does not look for the object store id
ParquetFileCreateNoCheck(s, parquet_file_params) ==
    LET parquet_file ==
            [ id                  |-> Len(s.parquet_files) + 1,
              shard_id            |-> parquet_file_params.shard_id,
              namespace_id        |-> parquet_file_params.namespace_id,
              table_id            |-> parquet_file_params.table_id,
              partition_id        |-> parquet_file_params.partition_id,
              object_store_id     |-> parquet_file_params.object_store_id,
              max_sequence_number |-> parquet_file_params.max_sequence_number,
              min_time            |-> parquet_file_params.min_time,
              max_time            |-> parquet_file_params.max_time,
              row_count           |-> parquet_file_params.row_count,
              to_delete           |-> <<>>,
              file_size_bytes     |-> parquet_file_params.file_size_bytes,
              compaction_level    |-> parquet_file_params.compaction_level,
              created_at          |-> parquet_file_params.created_at,
              column_set          |-> parquet_file_params.column_set ]
    IN  [st |-> [s EXCEPT !.parquet_files = Append(@, parquet_file)],
         r  |-> Ok(parquet_file)]

ParquetFileCreate(s, parquet_file_params) ==
    LET parquet_file ==
            [ id                  |-> Len(s.parquet_files) + 1,
              shard_id            |-> parquet_file_params.shard_id,
              namespace_id        |-> parquet_file_params.namespace_id,
              table_id            |-> parquet_file_params.table_id,
              partition_id        |-> parquet_file_params.partition_id,
              object_store_id     |-> parquet_file_params.object_store_id,
              max_sequence_number |-> parquet_file_params.max_sequence_number,
              min_time            |-> parquet_file_params.min_time,
              max_time            |-> parquet_file_params.max_time,
              row_count           |-> parquet_file_params.row_count,
              to_delete           |-> <<>>,
              file_size_bytes     |-> parquet_file_params.file_size_bytes,
              compaction_level    |-> parquet_file_params.compaction_level,
              created_at          |-> parquet_file_params.created_at,
              column_set          |-> parquet_file_params.column_set ]
    IN  IF \E j \in 1..Len(s.parquet_files) :
              s.parquet_files[j].object_store_id = parquet_file_params.object_store_id
        THEN [st |-> s,
              r  |-> Err("FileExists",
                         [object_store_id |-> parquet_file_params.object_store_id])]
        ELSE [st |-> [s EXCEPT !.parquet_files = Append(@, parquet_file)],
              r  |-> Ok(parquet_file)]

ParquetFileFlagForDelete(s, id, marked_at) ==
    LET i == First({j \in 1..Len(s.parquet_files) : s.parquet_files[j].id = id})
    IN  IF i # 0
        THEN [st |-> [s EXCEPT !.parquet_files[i].to_delete = <<marked_at>>],
              r  |-> Ok(<<>>)]
        ELSE [st |-> s, r |-> Err("ParquetRecordNotFound", [id |-> id])]

\* a closure that also takes the files marked at older_than
IsOldInclusive(f, older_than) == f.to_delete # <<>> /\ f.to_delete[1] <= older_than

\* the closure of delete_old: to_delete is Some(marked_deleted) before older_than
IsOld(f, older_than) == f.to_delete # <<>> /\ f.to_delete[1] < older_than

ParquetFileDeleteOld(s, older_than) ==
    [ st |-> [s EXCEPT !.parquet_files =
                           SelectSeq(@, LAMBDA f : ~IsOld(f, older_than))],
      r  |-> Ok(SelectSeq(s.parquet_files, LAMBDA f : IsOld(f, older_than))) ]

\* ParquetFileRepo::level_0: the files of the shard at the initial compaction
\* level that are not flagged for deletion
ParquetFileLevel0(s, shard_id) ==
    [ st |-> s,
      r  |-> Ok(SelectSeq(s.parquet_files,
                          LAMBDA f : /\ f.shard_id = shard_id
                                     /\ f.compaction_level = 0
                                     /\ f.to_delete = <<>>)) ]

\* ParquetFileRepo::level_1: table_partition is <<shard_id, table_id,
\* partition_id>>; compaction level 1 is CompactionLevel::FileNonOverlapped
ParquetFileLevel1(s, table_partition, min_time, max_time) ==
    [ st |-> s,
      r  |-> Ok(SelectSeq(s.parquet_files,
                          LAMBDA f : /\ f.shard_id = table_partition[1]
                                     /\ f.table_id = table_partition[2]
                                     /\ f.partition_id = table_partition[3]
                                     /\ f.compaction_level = 1
                                     /\ f.to_delete = <<>>
                                     /\ Overlaps(f.min_time, f.max_time, min_time, max_time))) ]

\* ParquetFileRepo::list_by_table_not_to_delete
ParquetFileListByTableNotToDelete(s, table_id) ==
    [ st |-> s,
      r  |-> Ok(SelectSeq(s.parquet_files,
                          LAMBDA f : table_id = f.table_id /\ f.to_delete = <<>>)) ]

\* ParquetFileRepo::list_by_partition_not_to_delete
ParquetFileListByPartitionNotToDelete(s, partition_id) ==
    [ st |-> s,
      r  |-> Ok(SelectSeq(s.parquet_files,
                          LAMBDA f : f.partition_id = partition_id /\ f.to_delete = <<>>)) ]

\* ParquetFileRepo::update_compaction_level: every file whose id is among
\* parquet_file_ids gets the level; the ids updated are returned in the order
\* of the store
ParquetFileUpdateCompactionLevel(s, parquet_file_ids, compaction_level) ==
    [ st |-> [s EXCEPT !.parquet_files =
                 [i \in DOMAIN @ |->
                     IF @[i].id \in parquet_file_ids
                     THEN [@[i] EXCEPT !.compaction_level = compaction_level]
                     ELSE @[i]]],
      r  |-> Ok([i \in DOMAIN SelectSeq(s.parquet_files, LAMBDA f : f.id \in parquet_file_ids) |->
                   SelectSeq(s.parquet_files, LAMBDA f : f.id \in parquet_file_ids)[i].id]) ]

\* ParquetFileRepo::exist
ParquetFileExist(s, id) ==
    [ st |-> s,
      r  |-> Ok(\E i \in DOMAIN s.parquet_files : s.parquet_files[i].id = id) ]

\* the PartitionParam of a parquet file
PartitionParamOf(f) ==
    [ partition_id |-> f.partition_id,
      shard_id     |-> f.shard_id,
      namespace_id |-> f.namespace_id,
      table_id     |-> f.table_id ]

\* the number of files of the sequence whose PartitionParam is p
CountOf(files, p) == Len(SelectSeq(files, LAMBDA f : PartitionParamOf(f) = p))

\* the partition ids of stage.skipped_compactions
SkippedPartitions(s) ==
    {s.skipped_compactions[i].partition_id : i \in 1..Len(s.skipped_compactions)}

\* sort_by(|a, b| b.1.cmp(a.1)) on a sequence of <<key, count>> entries: a
\* stable sort by count, greatest first
SortByCountDesc(entries) ==
    IF entries = <<>> THEN <<>>
    ELSE LET n == Len(entries)
             perm == CHOOSE o \in Orderings(1..n) :
                        \A i, j \in 1..n :
                            i < j => \/ entries[o[i]][2] > entries[o[j]][2]
                                     \/ /\ entries[o[i]][2] = entries[o[j]][2]
                                        /\ o[i] < o[j]
         IN  [i \in 1..n |-> entries[perm[i]]]

\* the keys of a sequence of <<key, count>> entries
Keys(entries) == [i \in 1..Len(entries) |-> entries[i][1]]

\* the files recent_highest_throughput_partitions counts
RecentFiles(s, shard_id, recent_time) ==
    SelectSeq(s.parquet_files,
              LAMBDA f : /\ f.shard_id = shard_id
                         /\ f.created_at > recent_time
                         /\ f.compaction_level = 0
                         /\ f.to_delete = <<>>)

\* recent_highest_throughput_partitions over a selection that also takes the
\* files created at time_in_the_past
ParquetFileRecentHighestThroughputPartitionsInclusive(s, shard_id, time_in_the_past, min_num_files, num_partitions, iter) ==
    LET files   == SelectSeq(s.parquet_files,
                             LAMBDA f : /\ f.shard_id = shard_id
                                        /\ f.created_at >= time_in_the_past
                                        /\ f.compaction_level = 0
                                        /\ f.to_delete = <<>>)
        entries == [i \in 1..Len(iter) |-> <<iter[i], CountOf(files, iter[i])>>]
        kept    == SelectSeq(entries,
                             LAMBDA e : /\ e[2] >= min_num_files
                                        /\ e[1].partition_id \notin SkippedPartitions(s))
    IN  [ st |-> s,
          r  |-> Ok(Take(Keys(SortByCountDesc(kept)), num_partitions)) ]

\* ParquetFileRepo::recent_highest_throughput_partitions; iter is the order in
\* which the HashMap partition_duplicate_count iterates over its keys, the
\* PartitionParams of the files counted
ParquetFileRecentHighestThroughputPartitions(s, shard_id, time_in_the_past, min_num_files, num_partitions, iter) ==
    LET files   == RecentFiles(s, shard_id, time_in_the_past)
        entries == [i \in 1..Len(iter) |-> <<iter[i], CountOf(files, iter[i])>>]
        kept    == SelectSeq(entries,
                             LAMBDA e : /\ e[2] >= min_num_files
                                        /\ e[1].partition_id \notin SkippedPartitions(s))
    IN  [ st |-> s,
          r  |-> Ok(Take(Keys(SortByCountDesc(kept)), num_partitions)) ]

\* the files most_cold_files_partitions counts
ColdFiles(s, shard_id) ==
    SelectSeq(s.parquet_files,
              LAMBDA f : /\ f.shard_id = shard_id
                         /\ (f.compaction_level = 0 \/ f.compaction_level = 1)
                         /\ f.to_delete = <<>>)

\* partition_max_created_at of the key p
MaxCreatedAt(files, p) ==
    Max({files[i].created_at : i \in {j \in 1..Len(files) : PartitionParamOf(files[j]) = p}})

\* most_cold_files_partitions taking the first num_partitions before it drops
\* the skipped partitions
ParquetFileMostColdFilesPartitionsTakeFirst(s, shard_id, time_in_the_past, num_partitions, iter) ==
    LET files   == ColdFiles(s, shard_id)
        entries == [i \in 1..Len(iter) |-> <<iter[i], CountOf(files, iter[i])>>]
        cold    == SelectSeq(entries,
                             LAMBDA e : MaxCreatedAt(files, e[1]) < time_in_the_past)
    IN  [ st |-> s,
          r  |-> Ok(SelectSeq(Take(Keys(SortByCountDesc(cold)), num_partitions),
                              LAMBDA p : p.partition_id \notin SkippedPartitions(s))) ]

\* ParquetFileRepo::most_cold_files_partitions; iter is the order in which the
\* HashMap partition_duplicate_count iterates over its keys
ParquetFileMostColdFilesPartitions(s, shard_id, time_in_the_past, num_partitions, iter) ==
    LET files   == ColdFiles(s, shard_id)
        entries == [i \in 1..Len(iter) |-> <<iter[i], CountOf(files, iter[i])>>]
        cold    == SelectSeq(entries,
                             LAMBDA e : MaxCreatedAt(files, e[1]) < time_in_the_past)
    IN  [ st |-> s,
          r  |-> Ok(Take(SelectSeq(Keys(SortByCountDesc(cold)),
                                   LAMBDA p : p.partition_id \notin SkippedPartitions(s)),
                         num_partitions)) ]

-----------------------------------------------------------------------------
(* ProcessedTombstoneRepo *)

\* a create that records the pair without looking for it
ProcessedTombstoneCreateNoPairCheck(s, parquet_file_id, tombstone_id) ==
    LET processed_tombstone ==
            [tombstone_id |-> tombstone_id, parquet_file_id |-> parquet_file_id]
    IN  IF ~\E j \in 1..Len(s.parquet_files) : s.parquet_files[j].id = parquet_file_id
        THEN [st |-> s, r |-> Err("FileNotFound", [id |-> parquet_file_id])]
        ELSE IF ~\E j \in 1..Len(s.tombstones) : s.tombstones[j].id = tombstone_id
        THEN [st |-> s, r |-> Err("TombstoneNotFound", [id |-> tombstone_id])]
        ELSE [st |-> [s EXCEPT !.processed_tombstones = Append(@, processed_tombstone)],
              r  |-> Ok(processed_tombstone)]

\* a create that records the pair before it looks for it
ProcessedTombstoneCreatePushFirst(s, parquet_file_id, tombstone_id) ==
    LET processed_tombstone ==
            [tombstone_id |-> tombstone_id, parquet_file_id |-> parquet_file_id]
        pushed == [s EXCEPT !.processed_tombstones = Append(@, processed_tombstone)]
        out == ProcessedTombstoneCreateNoPairCheck(s, parquet_file_id, tombstone_id)
    IN  IF out.r.err = "Ok" /\ processed_tombstone \in Range(s.processed_tombstones)
        THEN [st |-> pushed,
              r  |-> Err("ProcessTombstoneExists",
                         [parquet_file_id |-> parquet_file_id,
                          tombstone_id    |-> tombstone_id])]
        ELSE out

ProcessedTombstoneCreate(s, parquet_file_id, tombstone_id) ==
    LET processed_tombstone ==
            [tombstone_id |-> tombstone_id, parquet_file_id |-> parquet_file_id]
    IN  IF ~\E j \in 1..Len(s.parquet_files) : s.parquet_files[j].id = parquet_file_id
        THEN [st |-> s, r |-> Err("FileNotFound", [id |-> parquet_file_id])]
        ELSE IF ~\E j \in 1..Len(s.tombstones) : s.tombstones[j].id = tombstone_id
        THEN [st |-> s, r |-> Err("TombstoneNotFound", [id |-> tombstone_id])]
        ELSE IF \E j \in 1..Len(s.processed_tombstones) :
                   /\ s.processed_tombstones[j].tombstone_id = tombstone_id
                   /\ s.processed_tombstones[j].parquet_file_id = parquet_file_id
        THEN [st |-> s,
              r  |-> Err("ProcessTombstoneExists",
                         [parquet_file_id |-> parquet_file_id,
                          tombstone_id    |-> tombstone_id])]
        ELSE [st |-> [s EXCEPT !.processed_tombstones = Append(@, processed_tombstone)],
              r  |-> Ok(processed_tombstone)]

-----------------------------------------------------------------------------
(* Handles: MemCatalog::start_transaction, MemCatalog::repositories, MemTxn *)

NoHandle == [kind |-> "None", stage |-> EmptyCollections, finalized |-> FALSE]

\* a call of task t is suspended in lock_owned().await
Waiting(t) == \E i \in 1..Len(waitq) : waitq[i].task = t

\* a Mutex that hands out its guard without looking at the current owner
CanLockWhileHeld(t) == /\ waitq # <<>>
                       /\ Head(waitq).task = t

\* lock_owned() resolves for the longest-waiting task once the Mutex is free
CanLock(t) == /\ waitq # <<>>
              /\ Head(waitq).task = t
              /\ holder = NoTask

\* the stage a new transaction starts from: guard.clone()
StartStage(guard) == guard

\* a stage() that hands every handle the live store
StageAlwaysLive(t) == live

\* MemTxn::stage
Stage(t) == IF handle[t].kind = "Txn" THEN handle[t].stage ELSE live

\* the handle of t can take repository calls: it exists and, for a transaction,
\* commit/abort (which consume it) has not been called
Open(t) == handle[t].kind # "None" /\ ~handle[t].finalized

\* a commit that marks the transaction finalized and forgets the swap
CommitGuardNoSwap(stage, guard) == guard

\* what commit_inplace stores through the guard: std::mem::take(stage)
CommitGuard(stage, guard) == stage

\* an abort that swaps the stage in like commit
AbortGuardSwaps(stage, guard) == stage

\* what abort_inplace leaves behind the guard
AbortGuard(stage, guard) == guard

\* a commit_inplace or abort_inplace on a one-shot handle that returns Ok(())
FinalizeOneshotNoOp(what) == Ok(<<>>)

\* commit_inplace and abort_inplace on MemTxnInner::NoTxn:
\* panic!("cannot commit oneshot"), panic!("cannot abort oneshot")
FinalizeOneshot(what) == Err("Panic", <<"cannot", what, "oneshot">>)

\* a repository call of task t that leaves store out.st and returns out.r
Call(t, op, args, out) ==
    /\ IF handle[t].kind = "Txn"
       THEN /\ handle' = [handle EXCEPT ![t].stage = out.st]
            /\ UNCHANGED live
       ELSE /\ live' = out.st
            /\ UNCHANGED handle
    /\ res' = Result(op, t, args, out.r)
    /\ UNCHANGED <<holder, waitq, now, cache, getting, planner>>

-----------------------------------------------------------------------------
(* TombstoneCache: a cache keyed by table in front of                       *)
(* tombstones.list_by_table. An Option is a sequence: None is <<>>, Some(v) *)
(* is <<v>>.                                                                *)

\* the cache backend without entries
NoEntries == [table_id \in CacheTables |-> <<>>]

\* no get is in flight
NoGet == <<>>

\* the query planner works on no request
NoPlanning == <<>>

\* CachedTombstones::max_tombstone_sequence_number
MaxTombstoneSequenceNumber(tombstones) ==
    IF tombstones = <<>>
    THEN <<>>
    ELSE <<Max({tombstones[i].sequence_number : i \in 1..Len(tombstones)})>>

\* a closure that removes the entry on every get
RemoveIfAlways(cached_file, max_tombstone_sequence_number) == TRUE

\* a closure that also removes an entry whose maximum is the number asked with
RemoveIfInclusive(cached_file, max_tombstone_sequence_number) ==
    IF max_tombstone_sequence_number # <<>>
    THEN IF MaxTombstoneSequenceNumber(cached_file) # <<>>
         THEN MaxTombstoneSequenceNumber(cached_file)[1] <= max_tombstone_sequence_number[1]
         ELSE TRUE
    ELSE FALSE

\* the closure get hands to remove_if_and_get: whether the entry cached_file
\* is removed before the cache is read
RemoveIf(cached_file, max_tombstone_sequence_number) ==
    IF max_tombstone_sequence_number # <<>>
    THEN IF MaxTombstoneSequenceNumber(cached_file) # <<>>
         THEN MaxTombstoneSequenceNumber(cached_file)[1] < max_tombstone_sequence_number[1]
         ELSE TRUE
    ELSE FALSE

\* RemoveIfHandle::remove_if_and_get up to the read of the backend: the
\* entry of the table after the closure was applied to it
RemoveIfAndGet(entry, max_tombstone_sequence_number) ==
    IF entry # <<>> /\ RemoveIf(entry[1], max_tombstone_sequence_number)
    THEN <<>>
    ELSE entry

\* a retry that hands the error of the first failed attempt to the caller
RetryGivesUp(get) == NoGet

\* Backoff::retry_all_errors after an attempt that failed: the get stays in
\* flight and the attempt is made again
RetryAllErrors(get) == <<[get EXCEPT !.failed = @ + 1]>>

-----------------------------------------------------------------------------
(* History of the run, kept beside the program's state for the properties:  *)
(*   snap[t]     the live store when the transaction of t was returned      *)
(*   fin[t]      how the transaction of t was finalized: no, commit, abort  *)
(*   written[t]  the topic names created through the handle of t            *)
(*   published   the topic names created through a one-shot handle or       *)
(*               through a transaction that committed                      *)

(*   hi_tables   per namespace id, the largest max_tables that was in force *)
(*               when a table of the namespace was created (0: none yet)    *)
(*   alloc[kind] the ids given to the rows of the kind that were created     *)
(*   last[kind]  per natural key, the <<key, id>> the latest create_or_get  *)
(*               of the kind with that key returned                         *)
(*   flagged     the file ids a flag_for_delete succeeded for               *)
(*   got         of the latest TombstoneCache::get: the entry the cache had *)
(*               for the table when it was called, whether it loaded from   *)
(*               the catalog, and how many attempts to load failed          *)

\* the kinds of row that are looked up by a natural key
Kinds == {"topics", "query_pools", "shards", "partitions", "tombstones"}

\* the kinds of row that carry an id
IdKinds == Kinds \cup {"namespaces", "tables", "columns", "parquet_files"}

NoHistory ==
    [ snap      |-> [t \in Tasks |-> EmptyCollections],
      fin       |-> [t \in Tasks |-> "no"],
      written   |-> [t \in Tasks |-> {}],
      published |-> {},
      hi_tables |-> [n \in 1..3 |-> 0],
      alloc     |-> [k \in IdKinds |-> {}],
      last      |-> [k \in Kinds |-> {}],
      flagged   |-> {},
      got       |-> [had |-> <<>>, loaded |-> FALSE, failed |-> 0] ]

\* the history after a call that took store s to store s2: a row pushed to a
\* collection was given its id
Allocated(h, s, s2) ==
    [h EXCEPT !.alloc = [k \in IdKinds |->
                            IF Len(s2[k]) > Len(s[k])
                            THEN @[k] \cup {s2[k][Len(s2[k])].id}
                            ELSE @[k]]]

\* the history after a create_or_get of the kind returned row r.val for key
Returned(h, kind, key, r) ==
    [h EXCEPT !.last[kind] = {e \in @ : e[1] # key} \cup {<<key, r.val.id>>}]

\* the history after flag_for_delete(id) returned r: the ids whose flagging
\* succeeded
Flagged(h, id, r) ==
    IF r.err = "Ok" THEN [h EXCEPT !.flagged = @ \cup {id}] ELSE h

\* max_tables of the namespace with this id in store s
MaxTablesOf(s, namespace_id) ==
    LET n == First({j \in 1..Len(s.namespaces) : s.namespaces[j].id = namespace_id})
    IN  s.namespaces[n].max_tables

\* hi_tables after a tables.create_or_get that took store s to store s2
HiTables(hi, s, s2, namespace_id) ==
    IF Len(s2.tables) > Len(s.tables)
    THEN [hi EXCEPT ![namespace_id] = Max({@, MaxTablesOf(s, namespace_id)})]
    ELSE hi

\* the step is a return of repository call op
Called(op) == res'.op = op /\ UNCHANGED <<holder, waitq, now>>

-----------------------------------------------------------------------------
(* Actions *)

Init ==
    /\ live = EmptyCollections
    /\ holder = NoTask
    /\ waitq = <<>>
    /\ handle = [t \in Tasks |-> NoHandle]
    /\ res = Result("new", NoTask, <<>>, Ok(<<>>))
    /\ now = 0
    /\ hist = NoHistory
    /\ cache = NoEntries
    /\ getting = NoGet
    /\ planner = NoPlanning

\* task t calls start_transaction and suspends in lock_owned().await
StartTransaction(t) ==
    /\ handle[t].kind = "None" /\ ~Waiting(t)
    /\ waitq' = Append(waitq, [task |-> t, kind |-> "Txn"])
    /\ UNCHANGED <<live, holder, handle, res, now, hist, cache, getting, planner>>

\* task t calls repositories and suspends in lock_owned().await
Repositories(t) ==
    /\ handle[t].kind = "None" /\ ~Waiting(t)
    /\ waitq' = Append(waitq, [task |-> t, kind |-> "NoTxn"])
    /\ UNCHANGED <<live, holder, handle, res, now, hist, cache, getting, planner>>

\* lock_owned() resolves and the call returns the handle
LockOwned(t) ==
    /\ CanLock(t)
    /\ holder' = t
    /\ waitq' = Tail(waitq)
    /\ handle' = [handle EXCEPT ![t] =
                    IF Head(waitq).kind = "Txn"
                    THEN [kind |-> "Txn", stage |-> StartStage(live), finalized |-> FALSE]
                    ELSE [kind |-> "NoTxn", stage |-> EmptyCollections, finalized |-> FALSE]]
    /\ res' = [op |-> IF Head(waitq).kind = "Txn" THEN "start_transaction" ELSE "repositories",
               task |-> t, args |-> <<>>, r |-> Ok(<<>>)]
    /\ hist' = [hist EXCEPT !.snap[t] = IF Head(waitq).kind = "Txn" THEN live ELSE @]
    /\ UNCHANGED <<live, now, cache, getting, planner>>

\* the panic of the task t unwinds: its handle is dropped and the guard is
\* released, the store behind the guard is left as it is
Unwind(t) ==
    /\ handle' = [handle EXCEPT ![t] = NoHandle]
    /\ holder' = IF holder = t THEN NoTask ELSE holder
    /\ hist' = [hist EXCEPT !.snap[t] = EmptyCollections, !.fin[t] = "no",
                            !.written[t] = {}]
    /\ UNCHANGED <<live, waitq, now, cache, getting, planner>>

\* commit_inplace: on a transaction the stage is swapped behind the guard, on
\* a one-shot handle it panics
Commit(t) ==
    /\ Open(t)
    /\ res' = [op |-> "commit", task |-> t, args |-> <<handle[t].stage>>,
               r |-> IF handle[t].kind = "Txn" THEN Ok(<<>>) ELSE FinalizeOneshot("commit")]
    /\ IF handle[t].kind = "Txn"
       THEN /\ live' = CommitGuard(handle[t].stage, live)
            /\ handle' = [handle EXCEPT ![t].stage = EmptyCollections,
                                        ![t].finalized = TRUE]
            /\ hist' = [hist EXCEPT !.fin[t] = "commit",
                                    !.published = @ \cup hist.written[t]]
            /\ UNCHANGED <<holder, waitq, now, cache, getting, planner>>
       ELSE IF FinalizeOneshot("commit").err = "Panic"
            THEN Unwind(t)
            ELSE UNCHANGED <<live, holder, waitq, handle, now, hist, cache, getting, planner>>

\* abort_inplace: on a transaction the stage is given up, on a one-shot handle
\* it panics
Abort(t) ==
    /\ Open(t)
    /\ res' = [op |-> "abort", task |-> t, args |-> <<>>,
               r |-> IF handle[t].kind = "Txn" THEN Ok(<<>>) ELSE FinalizeOneshot("abort")]
    /\ IF handle[t].kind = "Txn"
       THEN /\ live' = AbortGuard(handle[t].stage, live)
            /\ handle' = [handle EXCEPT ![t].finalized = TRUE]
            /\ hist' = [hist EXCEPT !.fin[t] = "abort"]
            /\ UNCHANGED <<holder, waitq, now, cache, getting, planner>>
       ELSE IF FinalizeOneshot("abort").err = "Panic"
            THEN Unwind(t)
            ELSE UNCHANGED <<live, holder, waitq, handle, now, hist, cache, getting, planner>>

\* a drop of the handle that keeps the guard of the Mutex
DropKeepsGuard(t) ==
    /\ handle[t].kind # "None"
    /\ handle' = [handle EXCEPT ![t] = NoHandle]
    /\ res' = [op |-> "drop", task |-> t, args |-> <<handle[t].kind, handle[t].stage>>,
               r |-> Ok(<<handle[t].kind = "Txn" /\ ~handle[t].finalized>>)]
    /\ hist' = [hist EXCEPT !.snap[t] = EmptyCollections, !.fin[t] = "no",
                            !.written[t] = {}]
    /\ UNCHANGED <<live, holder, waitq, now, cache, getting, planner>>

\* the handle goes out of scope: Drop for MemTxn, then its guard is released.
\* r.val says whether the warning was logged.
Drop(t) ==
    /\ handle[t].kind # "None"
    /\ handle' = [handle EXCEPT ![t] = NoHandle]
    /\ holder' = IF holder = t THEN NoTask ELSE holder
    /\ res' = [op |-> "drop", task |-> t, args |-> <<handle[t].kind, handle[t].stage>>,
               r |-> Ok(<<handle[t].kind = "Txn" /\ ~handle[t].finalized>>)]
    /\ hist' = [hist EXCEPT !.snap[t] = EmptyCollections, !.fin[t] = "no",
                            !.written[t] = {}]
    /\ UNCHANGED <<live, waitq, now, cache, getting, planner>>

TopicsCreateOrGet(t, name) ==
    /\ Open(t)
    /\ Call(t, "topics.create_or_get", <<name>>, TopicCreateOrGet(Stage(t), name))
    /\ hist' = [Allocated(Returned(hist, "topics", <<name>>,
                                   TopicCreateOrGet(Stage(t), name).r),
                          Stage(t), TopicCreateOrGet(Stage(t), name).st)
                    EXCEPT !.written[t] = @ \cup {name},
                           !.published = IF handle[t].kind = "NoTxn"
                                         THEN @ \cup {name} ELSE @]

TopicsGetByName(t, name) ==
    /\ Open(t)
    /\ Call(t, "topics.get_by_name", <<name>>, TopicGetByName(Stage(t), name))
    /\ UNCHANGED hist

TombstonesCreateOrGet(t, table_id, shard_id, sequence_number, min_time, max_time) ==
    /\ Open(t)
    /\ Call(t, "tombstones.create_or_get",
            <<table_id, shard_id, sequence_number, min_time, max_time>>,
            TombstoneCreateOrGet(Stage(t), table_id, shard_id, sequence_number,
                                 min_time, max_time))
    /\ hist' = Allocated(Returned(hist, "tombstones",
                                  <<table_id, shard_id, sequence_number>>,
                                  TombstoneCreateOrGet(Stage(t), table_id, shard_id,
                                      sequence_number, min_time, max_time).r),
                         Stage(t),
                         TombstoneCreateOrGet(Stage(t), table_id, shard_id,
                                              sequence_number, min_time, max_time).st)

TombstonesRemove(t, tombstone_ids) ==
    /\ Open(t)
    /\ Call(t, "tombstones.remove", <<tombstone_ids>>,
            TombstoneRemove(Stage(t), tombstone_ids))
    /\ UNCHANGED hist

TombstonesListForTimeRange(t, shard_id, table_id, sequence_number, min_time, max_time) ==
    /\ Open(t)
    /\ Call(t, "tombstones.list_tombstones_for_time_range",
            <<shard_id, table_id, sequence_number, min_time, max_time>>,
            TombstoneListForTimeRange(Stage(t), shard_id, table_id, sequence_number,
                                      min_time, max_time))
    /\ UNCHANGED hist

QueryPoolsCreateOrGet(t, name) ==
    /\ Open(t)
    /\ Call(t, "query_pools.create_or_get", <<name>>,
            QueryPoolCreateOrGet(Stage(t), name))
    /\ hist' = Allocated(Returned(hist, "query_pools", <<name>>,
                                  QueryPoolCreateOrGet(Stage(t), name).r),
                         Stage(t), QueryPoolCreateOrGet(Stage(t), name).st)

ShardsCreateOrGet(t, topic_id, shard_index) ==
    /\ Open(t)
    /\ Call(t, "shards.create_or_get", <<topic_id, shard_index>>,
            ShardCreateOrGet(Stage(t), topic_id, shard_index))
    /\ hist' = Allocated(Returned(hist, "shards", <<topic_id, shard_index>>,
                                  ShardCreateOrGet(Stage(t), topic_id, shard_index).r),
                         Stage(t), ShardCreateOrGet(Stage(t), topic_id, shard_index).st)

PartitionsCreateOrGet(t, key, shard_id, table_id) ==
    /\ Open(t)
    /\ Call(t, "partitions.create_or_get", <<key, shard_id, table_id>>,
            PartitionCreateOrGet(Stage(t), key, shard_id, table_id))
    /\ hist' = Allocated(Returned(hist, "partitions", <<key, shard_id, table_id>>,
                                  PartitionCreateOrGet(Stage(t), key, shard_id, table_id).r),
                         Stage(t),
                         PartitionCreateOrGet(Stage(t), key, shard_id, table_id).st)

PartitionsUpdateSortKey(t, partition_id, sort_key) ==
    /\ Open(t)
    /\ Call(t, "partitions.update_sort_key", <<partition_id, sort_key>>,
            PartitionUpdateSortKey(Stage(t), partition_id, sort_key))
    /\ UNCHANGED hist

ParquetFilesCreate(t, parquet_file_params) ==
    /\ Open(t)
    /\ Call(t, "parquet_files.create", <<parquet_file_params>>,
            ParquetFileCreate(Stage(t), parquet_file_params))
    /\ hist' = Allocated(hist, Stage(t),
                         ParquetFileCreate(Stage(t), parquet_file_params).st)

\* marked_at is the reading of the handle's time provider
ParquetFilesFlagForDelete(t, id) ==
    /\ Open(t)
    /\ Call(t, "parquet_files.flag_for_delete", <<id>>,
            ParquetFileFlagForDelete(Stage(t), id, now))
    /\ hist' = Flagged(hist, id, ParquetFileFlagForDelete(Stage(t), id, now).r)

ParquetFilesDeleteOld(t, older_than) ==
    /\ Open(t)
    /\ Call(t, "parquet_files.delete_old", <<older_than>>,
            ParquetFileDeleteOld(Stage(t), older_than))
    /\ UNCHANGED hist

ParquetFilesLevel0(t, shard_id) ==
    /\ Open(t)
    /\ Call(t, "parquet_files.level_0", <<shard_id>>,
            ParquetFileLevel0(Stage(t), shard_id))
    /\ UNCHANGED hist

ParquetFilesLevel1(t, table_partition, min_time, max_time) ==
    /\ Open(t)
    /\ Call(t, "parquet_files.level_1", <<table_partition, min_time, max_time>>,
            ParquetFileLevel1(Stage(t), table_partition, min_time, max_time))
    /\ UNCHANGED hist

ParquetFilesListByTableNotToDelete(t, table_id) ==
    /\ Open(t)
    /\ Call(t, "parquet_files.list_by_table_not_to_delete", <<table_id>>,
            ParquetFileListByTableNotToDelete(Stage(t), table_id))
    /\ UNCHANGED hist

ParquetFilesListByPartitionNotToDelete(t, partition_id) ==
    /\ Open(t)
    /\ Call(t, "parquet_files.list_by_partition_not_to_delete", <<partition_id>>,
            ParquetFileListByPartitionNotToDelete(Stage(t), partition_id))
    /\ UNCHANGED hist

ParquetFilesUpdateCompactionLevel(t, parquet_file_ids, compaction_level) ==
    /\ Open(t)
    /\ Call(t, "parquet_files.update_compaction_level",
            <<parquet_file_ids, compaction_level>>,
            ParquetFileUpdateCompactionLevel(Stage(t), parquet_file_ids, compaction_level))
    /\ UNCHANGED hist

ParquetFilesExist(t, id) ==
    /\ Open(t)
    /\ Call(t, "parquet_files.exist", <<id>>, ParquetFileExist(Stage(t), id))
    /\ UNCHANGED hist

PartitionsRecordSkippedCompaction(t, partition_id, reason) ==
    /\ Open(t)
    /\ Call(t, "partitions.record_skipped_compaction", <<partition_id, reason>>,
            PartitionRecordSkippedCompaction(Stage(t), partition_id, reason, now))
    /\ UNCHANGED hist

\* the HashMap iterates over the PartitionParams of the files counted in some
\* order
ParquetFilesRecentHighestThroughputPartitions(t, shard_id, time_in_the_past, min_num_files, num_partitions) ==
    /\ Open(t)
    /\ \E iter \in Orderings({PartitionParamOf(f) :
                                 f \in Range(RecentFiles(Stage(t), shard_id, time_in_the_past))}) :
          Call(t, "parquet_files.recent_highest_throughput_partitions",
               <<shard_id, time_in_the_past, min_num_files, num_partitions>>,
               ParquetFileRecentHighestThroughputPartitions(
                   Stage(t), shard_id, time_in_the_past, min_num_files, num_partitions, iter))
    /\ UNCHANGED hist

ParquetFilesMostColdFilesPartitions(t, shard_id, time_in_the_past, num_partitions) ==
    /\ Open(t)
    /\ \E iter \in Orderings({PartitionParamOf(f) :
                                 f \in Range(ColdFiles(Stage(t), shard_id))}) :
          Call(t, "parquet_files.most_cold_files_partitions",
               <<shard_id, time_in_the_past, num_partitions>>,
               ParquetFileMostColdFilesPartitions(
                   Stage(t), shard_id, time_in_the_past, num_partitions, iter))
    /\ UNCHANGED hist

ProcessedTombstonesCreate(t, parquet_file_id, tombstone_id) ==
    /\ Open(t)
    /\ Call(t, "processed_tombstones.create", <<parquet_file_id, tombstone_id>>,
            ProcessedTombstoneCreate(Stage(t), parquet_file_id, tombstone_id))
    /\ UNCHANGED hist

\* TombstoneCache::get is called: the closure is applied to the entry of the
\* table; an entry that stays is returned, else the get waits for the loader
CacheGet(table_id, max_tombstone_sequence_number) ==
    /\ getting = NoGet
    /\ cache' = [cache EXCEPT ![table_id] =
                     RemoveIfAndGet(@, max_tombstone_sequence_number)]
    /\ getting' = IF cache'[table_id] # <<>>
                  THEN NoGet
                  ELSE <<[ table_id |-> table_id,
                           max_tombstone_sequence_number |-> max_tombstone_sequence_number,
                           failed   |-> 0 ]>>
    /\ res' = [ op   |-> "tombstone_cache.get",
                task |-> NoTask,
                args |-> <<table_id, max_tombstone_sequence_number>>,
                r    |-> IF cache'[table_id] # <<>>
                         THEN Ok(cache'[table_id][1])
                         ELSE Err("Pending", <<>>) ]
    /\ hist' = [hist EXCEPT !.got = [had |-> cache[table_id], loaded |-> FALSE,
                                     failed |-> 0]]
    /\ UNCHANGED <<live, holder, waitq, handle, now, planner>>

\* an attempt of the loader succeeds: it takes the Mutex of the catalog when
\* nobody holds or awaits it, lists the tombstones of the table through a
\* one-shot handle, the list becomes the entry and the get returns it
CacheLoad ==
    /\ getting # NoGet
    /\ holder = NoTask /\ waitq = <<>>
    /\ cache' = [cache EXCEPT ![getting[1].table_id] =
                     <<TombstoneListByTable(live, getting[1].table_id).r.val>>]
    /\ getting' = NoGet
    /\ res' = [ op   |-> "tombstone_cache.get",
                task |-> NoTask,
                args |-> <<getting[1].table_id, getting[1].max_tombstone_sequence_number>>,
                r    |-> Ok(cache'[getting[1].table_id][1]) ]
    /\ hist' = [hist EXCEPT !.got.loaded = TRUE]
    /\ UNCHANGED <<live, holder, waitq, handle, now, planner>>

\* an attempt of the loader fails with an error of the catalog
CacheLoadFails ==
    /\ getting # NoGet
    /\ getting[1].failed < MaxFailures
    /\ getting' = RetryAllErrors(getting[1])
    /\ res' = [ op   |-> "tombstone_cache.get",
                task |-> NoTask,
                args |-> <<getting[1].table_id, getting[1].max_tombstone_sequence_number>>,
                r    |-> IF getting' = NoGet THEN Err("Catalog", <<>>)
                                             ELSE Err("Pending", <<>>) ]
    /\ hist' = [hist EXCEPT !.got.failed = @ + 1]
    /\ UNCHANGED <<live, holder, waitq, handle, now, cache, planner>>

\* the LRU policy of the shared RAM pool evicts the entry of a table
CacheEvict(table_id) ==
    /\ cache[table_id] # <<>>
    /\ cache' = [cache EXCEPT ![table_id] = <<>>]
    /\ UNCHANGED <<live, holder, waitq, handle, res, now, hist, getting, planner>>

\* the clock of the time provider advances
Tick ==
    /\ now < MaxTime
    /\ now' = now + 1
    /\ UNCHANGED <<live, holder, waitq, handle, res, hist, cache, getting, planner>>

NamespacesCreate(t, name) ==
    /\ Open(t)
    /\ Call(t, "namespaces.create", <<name>>, NamespaceCreate(Stage(t), name, "inf", 1, 1))
    /\ hist' = Allocated(hist, Stage(t), NamespaceCreate(Stage(t), name, "inf", 1, 1).st)

NamespacesUpdateTableLimit(t, name, new_max) ==
    /\ Open(t)
    /\ Call(t, "namespaces.update_table_limit", <<name, new_max>>,
            NamespaceUpdateTableLimit(Stage(t), name, new_max))
    /\ UNCHANGED hist

NamespacesUpdateColumnLimit(t, name, new_max) ==
    /\ Open(t)
    /\ Call(t, "namespaces.update_column_limit", <<name, new_max>>,
            NamespaceUpdateColumnLimit(Stage(t), name, new_max))
    /\ UNCHANGED hist

TablesCreateOrGet(t, name, namespace_id) ==
    /\ Open(t)
    /\ Call(t, "tables.create_or_get", <<name, namespace_id>>,
            TableCreateOrGet(Stage(t), name, namespace_id))
    /\ hist' = [Allocated(hist, Stage(t), TableCreateOrGet(Stage(t), name, namespace_id).st)
                    EXCEPT !.hi_tables =
                        HiTables(@, Stage(t),
                                 TableCreateOrGet(Stage(t), name, namespace_id).st,
                                 namespace_id)]

ColumnsCreateOrGet(t, name, table_id, column_type) ==
    /\ Open(t)
    /\ Call(t, "columns.create_or_get", <<name, table_id, column_type>>,
            ColumnCreateOrGet(Stage(t), name, table_id, column_type))
    /\ hist' = Allocated(hist, Stage(t),
                         ColumnCreateOrGet(Stage(t), name, table_id, column_type).st)

ColumnsCreateOrGetMany(t, columns) ==
    /\ Open(t)
    /\ Call(t, "columns.create_or_get_many", <<columns>>,
            ColumnCreateOrGetMany(Stage(t), columns))
    /\ UNCHANGED hist

-----------------------------------------------------------------------------
(* Transactions and the Mutex: every task may start a transaction or take a *)
(* one-shot handle, create topics and tombstones, remove tombstones, read,  *)
(* commit, abort and drop.                                                  *)

Next ==
    \E t \in Tasks :
        \/ StartTransaction(t)
        \/ Repositories(t)
        \/ LockOwned(t)
        \/ Commit(t)
        \/ Abort(t)
        \/ Drop(t)
        \/ \E name \in TopicNames : TopicsCreateOrGet(t, name)
        \/ \E name \in TopicNames : TopicsGetByName(t, name)
        \/ TombstonesCreateOrGet(t, 1, 1, 1, 1, 2)
        \/ TombstonesRemove(t, {1})

Spec == Init /\ [][Next]_vars

\* the Mutex of the catalog is fair (lock_owned() resolves in the order of the
\* calls), and every task drops the handle it was handed
SpecHandles ==
    /\ Init /\ [][Next]_vars
    /\ \A t \in Tasks : WF_vars(LockOwned(t)) /\ WF_vars(Drop(t))

-----------------------------------------------------------------------------
(* Namespaces and tables through a one-shot handle: the stores a            *)
(* transaction can publish are the stores the same calls reach on the live  *)
(* store.                                                                   *)

NextTables ==
    \/ Repositories(1)
    \/ LockOwned(1)
    \/ Drop(1)
    \/ \E name \in NamespaceNames : NamespacesCreate(1, name)
    \/ \E name \in {"ns1", UnknownNamespace}, new_max \in 0..MaxLimit :
          NamespacesUpdateTableLimit(1, name, new_max)
    \/ \E q \in TableRequests : TablesCreateOrGet(1, q[1], q[2])

SpecTables == Init /\ [][NextTables]_vars

-----------------------------------------------------------------------------
(* Columns through a one-shot handle: one namespace whose column limit is   *)
(* updated, two tables, and the column requests above.                      *)

NextColumns ==
    \/ Repositories(1)
    \/ LockOwned(1)
    \/ Drop(1)
    \/ NamespacesCreate(1, "ns1")
    \/ \E name \in {"ns1", UnknownNamespace}, new_max \in 0..MaxLimit :
          NamespacesUpdateColumnLimit(1, name, new_max)
    \/ \E name \in 1..2 : TablesCreateOrGet(1, name, 1)
    \/ \E q \in ColumnRequests : ColumnsCreateOrGet(1, q[1], q[2], q[3])

SpecColumns == Init /\ [][NextColumns]_vars

-----------------------------------------------------------------------------
(* The create_or_get of every kind that is looked up by a natural key, and  *)
(* tombstones.remove, through a one-shot handle.                            *)

\* the rows of the kinds with a natural key, and the parquet files, in store s
Rows(s) == Len(s.topics) + Len(s.query_pools) + Len(s.shards)
               + Len(s.partitions) + Len(s.tombstones) + Len(s.parquet_files)

\* the requests the callers make: none once the store holds MaxRows rows
Within(requests) == IF Rows(live) < MaxRows THEN requests ELSE {}

NextKeys ==
    \/ Repositories(1)
    \/ LockOwned(1)
    \/ Drop(1)
    \/ \E name \in Within(TopicNames) : TopicsCreateOrGet(1, name)
    \/ \E name \in Within(QueryPoolNames) : QueryPoolsCreateOrGet(1, name)
    \/ \E q \in Within(ShardRequests) : ShardsCreateOrGet(1, q[1], q[2])
    \/ \E q \in Within(PartitionRequests) : PartitionsCreateOrGet(1, q[1], q[2], q[3])
    \/ \E q \in Within(TombstoneRequests) :
          TombstonesCreateOrGet(1, q[1], q[2], q[3], q[4], q[5])
    \/ \E ids \in TombstoneIdSets : TombstonesRemove(1, ids)

SpecKeys == Init /\ [][NextKeys]_vars

-----------------------------------------------------------------------------
(* The kinds whose rows are removed, through a one-shot handle: tombstones  *)
(* with tombstones.remove, parquet files with flag_for_delete and           *)
(* delete_old, while the clock advances.                                    *)

NextFiles ==
    \/ Repositories(1)
    \/ LockOwned(1)
    \/ Drop(1)
    \/ Tick
    \/ \E q \in Within(TombstoneRequests) :
          TombstonesCreateOrGet(1, q[1], q[2], q[3], q[4], q[5])
    \/ \E ids \in TombstoneIdSets : TombstonesRemove(1, ids)
    \/ \E u \in Within(ObjectStoreIds) : ParquetFilesCreate(1, ParquetFileParamsOf(u))
    \/ \E id \in ParquetFileIds : ParquetFilesFlagForDelete(1, id)
    \/ \E older_than \in 0..(MaxTime + 1) : ParquetFilesDeleteOld(1, older_than)

SpecFiles == Init /\ [][NextFiles]_vars

-----------------------------------------------------------------------------
(* Tombstones alone through a one-shot handle: created, and listed for a    *)
(* shard, a table, a sequence number and a time range.                      *)

NextRanges ==
    \/ Repositories(1)
    \/ LockOwned(1)
    \/ Drop(1)
    \/ \E q \in Within(TombstoneRequests) :
          TombstonesCreateOrGet(1, q[1], q[2], q[3], q[4], q[5])
    \/ \E q \in TimeRangeRequests :
          TombstonesListForTimeRange(1, q[1], q[2], q[3], q[4], q[5])

SpecRanges == Init /\ [][NextRanges]_vars

-----------------------------------------------------------------------------
(* The overlap test on its own: the four timestamps are drawn, then the     *)
(* test is applied to them.                                                 *)

InitOverlap ==
    /\ live = EmptyCollections
    /\ holder = NoTask
    /\ waitq = <<>>
    /\ handle = [t \in Tasks |-> NoHandle]
    /\ \E a \in Times, b \in Times, c \in Times, d \in Times :
          res = [op |-> "overlaps.input", task |-> NoTask, args |-> <<a, b, c, d>>,
                 r |-> Ok(<<>>)]
    /\ now = 0
    /\ hist = NoHistory
    /\ cache = NoEntries
    /\ getting = NoGet
    /\ planner = NoPlanning

OverlapsCall ==
    /\ res.op = "overlaps.input"
    /\ res' = [res EXCEPT !.op = "overlaps",
                          !.r = Ok(Overlaps(res.args[1], res.args[2],
                                            res.args[3], res.args[4]))]
    /\ UNCHANGED <<live, holder, waitq, handle, now, hist, cache, getting, planner>>

SpecOverlap == InitOverlap /\ [][OverlapsCall]_vars

-----------------------------------------------------------------------------
(* Parquet files alone through a one-shot handle: created, flagged for      *)
(* deletion at the reading of the clock, and deleted by threshold.          *)

NextGc ==
    \/ Repositories(1)
    \/ LockOwned(1)
    \/ Drop(1)
    \/ Tick
    \/ \E u \in Within(ObjectStoreIds) : ParquetFilesCreate(1, ParquetFileParamsOf(u))
    \/ \E id \in ParquetFileIds : ParquetFilesFlagForDelete(1, id)
    \/ \E older_than \in 0..(MaxTime + 1) : ParquetFilesDeleteOld(1, older_than)

SpecGc == Init /\ [][NextGc]_vars

-----------------------------------------------------------------------------
(* Parquet files through a one-shot handle: created, moved to compaction    *)
(* level 1, flagged, deleted, and read by the queries that leave out the    *)
(* files flagged for deletion.                                              *)

NextFlagged ==
    \/ Repositories(1)
    \/ LockOwned(1)
    \/ Drop(1)
    \/ \E u \in Within(ObjectStoreIds) : ParquetFilesCreate(1, ParquetFileParamsOf(u))
    \/ \E id \in 1..2 : ParquetFilesFlagForDelete(1, id)
    \/ ParquetFilesDeleteOld(1, 1)
    \/ ParquetFilesUpdateCompactionLevel(1, {1}, 1)
    \/ ParquetFilesLevel0(1, 1)
    \/ ParquetFilesLevel1(1, <<1, 1, 1>>, 1, MaxTime)
    \/ ParquetFilesListByTableNotToDelete(1, 1)
    \/ ParquetFilesListByPartitionNotToDelete(1, 1)
    \/ \E id \in 1..2 : ParquetFilesExist(1, id)

SpecFlagged == Init /\ [][NextFlagged]_vars

-----------------------------------------------------------------------------
(* The catalog the compactor reads through a one-shot handle: files of      *)
(* several partitions are created, the first is flagged, the second is      *)
(* moved to another compaction level, partition 1 is recorded as skipped,   *)
(* and the two partition queries are asked.                                 *)

FilesWithin(requests) ==
    IF Len(live.parquet_files) < MaxFiles THEN requests ELSE {}

NextCompaction ==
    \/ Repositories(1)
    \/ LockOwned(1)
    \/ Drop(1)
    \/ \E params \in FilesWithin(CompactionFileParams) : ParquetFilesCreate(1, params)
    \/ ParquetFilesFlagForDelete(1, 1)
    \/ \E level \in 1..2 : ParquetFilesUpdateCompactionLevel(1, {2}, level)
    \/ PartitionsRecordSkippedCompaction(1, 1, "r")
    \/ \E time_in_the_past \in CompactionTimes \ {MaxTime + 1}, min_num_files \in 1..3,
             num_partitions \in 1..2 :
          ParquetFilesRecentHighestThroughputPartitions(
              1, 1, time_in_the_past, min_num_files, num_partitions)
    \/ \E time_in_the_past \in CompactionTimes \ {0}, num_partitions \in 1..2 :
          ParquetFilesMostColdFilesPartitions(1, 1, time_in_the_past, num_partitions)

SpecCompaction == Init /\ [][NextCompaction]_vars

-----------------------------------------------------------------------------
(* The tombstone cache of a querier in front of a catalog that is given     *)
(* tombstones through a one-shot handle.                                    *)

NextCache ==
    \/ Repositories(1)
    \/ LockOwned(1)
    \/ Drop(1)
    \/ \E req \in Within(TombstoneRequests) :
          TombstonesCreateOrGet(1, req[1], req[2], req[3], req[4], req[5])
    \/ \E table_id \in CacheTables, max_seen \in MaxSeenSequences :
          CacheGet(table_id, max_seen)
    \/ CacheLoad
    \/ CacheLoadFails
    \/ \E table_id \in CacheTables : CacheEvict(table_id)

SpecCache == Init /\ [][NextCache]_vars

\* the Mutex of the catalog is fair and handles are dropped, so an attempt of
\* the loader that the catalog does not fail is made in the end
SpecCacheLive ==
    /\ Init /\ [][NextCache]_vars
    /\ WF_holder(LockOwned(1))
    /\ WF_holder(Drop(1))
    /\ SF_getting(CacheLoad)

-----------------------------------------------------------------------------
(* Processed tombstones through a one-shot handle: two tombstones, two      *)
(* parquet files, the pairs of them, and tombstones.remove.                 *)

NextProcessed ==
    \/ Repositories(1)
    \/ LockOwned(1)
    \/ Drop(1)
    \/ \E q \in ProcessedTombstoneRequests :
          TombstonesCreateOrGet(1, q[1], q[2], q[3], q[4], q[5])
    \/ \E ids \in TombstoneIdSets : TombstonesRemove(1, ids)
    \/ \E u \in ProcessedObjectStoreIds : ParquetFilesCreate(1, ParquetFileParamsOf(u))
    \/ \E q \in ProcessedRequests : ProcessedTombstonesCreate(1, q[1], q[2])

SpecProcessed == Init /\ [][NextProcessed]_vars

-----------------------------------------------------------------------------
(* The calls that can fail, through a one-shot handle and through a          *)
(* transaction, which the callers start on the empty catalog: a namespace    *)
(* with limits of one, a table and a column of it with two types, a          *)
(* partition, a parquet file,                                                *)
(* a tombstone and the pair of them, each asked for before and after it is   *)
(* there.                                                                    *)

NextErrors ==
    \/ \E t \in IF live = EmptyCollections THEN {1} ELSE {} : StartTransaction(t)
    \/ Repositories(1)
    \/ LockOwned(1)
    \/ Drop(1)
    \/ NamespacesCreate(1, "ns1")
    \/ NamespacesUpdateTableLimit(1, "ns1", 1)
    \/ NamespacesUpdateColumnLimit(1, "ns1", 1)
    \/ TablesCreateOrGet(1, 1, 1)
    \/ \E column_type \in {"tag", "i64"} : ColumnsCreateOrGet(1, 1, 1, column_type)
    \/ PartitionsCreateOrGet(1, "k1", 1, 1)
    \/ PartitionsUpdateSortKey(1, 1, <<"tag1">>)
    \/ ParquetFilesCreate(1, ParquetFileParamsOf(1))
    \/ ParquetFilesFlagForDelete(1, 1)
    \/ TombstonesCreateOrGet(1, 1, 1, 1, 1, MaxTime)
    \/ ProcessedTombstonesCreate(1, 1, 1)

SpecErrors == Init /\ [][NextErrors]_vars

-----------------------------------------------------------------------------
(* Batches of columns, through a one-shot handle and through a transaction   *)
(* started on the empty catalog: one namespace whose column limit is         *)
(* updated, one table, and batches of up to MaxBatch of the column requests. *)

\* the longest batch create_or_get_many is called with
MaxBatch == 2

ColumnBatches ==
    UNION {[1..n -> {<<1, 1, "tag">>, <<2, 1, "tag">>, <<1, 1, "i64">>, <<1, 2, "tag">>}] :
             n \in 0..MaxBatch}

NextBatches ==
    \/ \E t \in IF live = EmptyCollections THEN {1} ELSE {} : StartTransaction(t)
    \/ Repositories(1)
    \/ LockOwned(1)
    \/ Drop(1)
    \/ NamespacesCreate(1, "ns1")
    \/ \E new_max \in 1..MaxLimit : NamespacesUpdateColumnLimit(1, "ns1", new_max)
    \/ TablesCreateOrGet(1, 1, 1)
    \/ \E columns \in ColumnBatches : ColumnsCreateOrGetMany(1, columns)

SpecBatches == Init /\ [][NextBatches]_vars

-----------------------------------------------------------------------------
(* Processed tombstones of files that are deleted, through a one-shot        *)
(* handle: a tombstone, two parquet files that are flagged at the reading of *)
(* the clock and deleted by threshold, and the pairs of file and tombstone.  *)

NextReferences ==
    \/ Repositories(1)
    \/ LockOwned(1)
    \/ Drop(1)
    \/ Tick
    \/ TombstonesCreateOrGet(1, 1, 1, 1, 1, MaxTime)
    \/ \E u \in 1..2 : ParquetFilesCreate(1, ParquetFileParamsOf(u))
    \/ \E id \in 1..2 : ParquetFilesFlagForDelete(1, id)
    \/ \E older_than \in 0..(MaxTime + 1) : ParquetFilesDeleteOld(1, older_than)
    \/ \E parquet_file_id \in 1..2 : ProcessedTombstonesCreate(1, parquet_file_id, 1)

SpecReferences == Init /\ [][NextReferences]_vars

-----------------------------------------------------------------------------
(* Properties *)

\* C1: when a transaction commits, the live store becomes exactly its staged
\* snapshot (all of its mutations at once), and every topic created by a
\* committed transaction or through a one-shot handle is found by every later
\* read of any handle.
C1_CommitPublishesStage ==
    /\ (res.op = "commit" /\ res.r.err = "Ok") => live = res.args[1]
    /\ (res.op = "topics.get_by_name" /\ res.args[1] \in hist.published)
          => res.r.val # <<>>

\* a transaction that created a topic and removed or created a tombstone has
\* committed, and the live store is no longer the one it started from
C1_Witness ==
    /\ res.op = "commit"
    /\ hist.written[res.task] # {}
    /\ live # hist.snap[res.task]
    /\ live.tombstones # hist.snap[res.task].tombstones

\* C2: from the start of a transaction until its handle is gone, every step
\* other than its commit leaves the live store what it was when the
\* transaction started (abort and drop discard the stage), and dropping a
\* transaction that was neither committed nor aborted logs the warning.
C2_AbortOrDropKeepsLive ==
    [][\A t \in Tasks :
         (handle[t].kind = "Txn" /\ hist.fin[t] # "commit" /\ hist'.fin[t] # "commit")
           => /\ live' = hist.snap[t]
              /\ (handle'[t].kind = "None" /\ hist.fin[t] = "no")
                   => res'.r.val = <<TRUE>>]_vars

\* a transaction that had staged mutations was dropped without commit or abort
C2_Witness ==
    /\ res.op = "drop"
    /\ res.args[1] = "Txn"
    /\ res.r.val = <<TRUE>>
    /\ res.args[2] # live

\* C3: at most one handle exists at a time, and it belongs to the task that
\* holds the Mutex: no call of another task returns while a handle is out.
C3_OneHandle ==
    /\ Cardinality({t \in Tasks : handle[t].kind # "None"}) <= 1
    /\ \A t \in Tasks : handle[t].kind # "None" => holder = t

\* a transaction is open with staged mutations while another task's call waits
C3_Witness ==
    \E t, u \in Tasks :
        /\ t # u
        /\ handle[t].kind = "Txn"
        /\ hist.written[t] # {}
        /\ Waiting(u)

\* C4: a transaction starts from a stage equal to the live store, and a read
\* through a handle finds every topic created before through the same handle.
C4_ReadYourWrites ==
    /\ res.op = "start_transaction" => handle[res.task].stage = live
    /\ (res.op = "topics.get_by_name" /\ res.args[1] \in hist.written[res.task])
          => res.r.val # <<>>

\* a read inside an open transaction returned a topic that is staged and not
\* in the live store
C4_Witness ==
    /\ res.op = "topics.get_by_name"
    /\ handle[res.task].kind = "Txn"
    /\ res.r.val # <<>>
    /\ \A i \in 1..Len(live.topics) : live.topics[i].name # res.args[1]


\* the natural key of a row of the kind
KeyOf(kind, row) ==
    CASE kind \in {"topics", "query_pools"} -> <<row.name>>
      [] kind = "shards"     -> <<row.topic_id, row.shard_index>>
      [] kind = "partitions" -> <<row.partition_key, row.shard_id, row.table_id>>
      [] kind = "tombstones" -> <<row.table_id, row.shard_id, row.sequence_number>>

\* the natural key in the arguments of a create_or_get of the kind
RequestKey(kind, args) == IF kind = "tombstones" THEN SubSeq(args, 1, 3) ELSE args

\* the index in store s of the row of the kind with this natural key, 0 for none
RowAt(s, kind, key) ==
    First({j \in 1..Len(s[kind]) : KeyOf(kind, s[kind][j]) = key})

\* store s holds no two rows of a kind with the same natural key
NoDupKeys(s) ==
    \A kind \in Kinds : \A i, j \in 1..Len(s[kind]) :
        KeyOf(kind, s[kind][i]) = KeyOf(kind, s[kind][j]) => i = j

\* C5 as stated: in any sequence of operations every create_or_get of a topic,
\* query pool, shard, partition or tombstone with the same natural key returns
\* the same identifier as the call before it with that key, and the store
\* never holds two rows with the same natural key.
C5_SameIdInAnySequence ==
    [][ /\ \A kind \in Kinds : \A e \in hist.last[kind], f \in hist'.last[kind] :
              e[1] = f[1] => e[2] = f[2]
        /\ NoDupKeys(live') ]_vars

\* C5, amended: while the row with a natural key is in the store, every
\* create_or_get with that key returns that row, whose identifier is the one
\* the call before it with that key returned, and adds no row; a key that is
\* not in the store gets one new row with that key; rows stay as they are
\* until tombstones.remove, and the store never holds two rows with the same
\* natural key.
C5_SameIdWhileRowStays ==
    [][ /\ \A kind \in Kinds :
              Called(kind \o ".create_or_get") =>
                  LET key == RequestKey(kind, res'.args)
                      i   == RowAt(live, kind, key)
                  IN  /\ res'.r.err = "Ok"
                      /\ IF i # 0
                         THEN /\ res'.r.val = live[kind][i]
                              /\ live' = live
                              /\ <<key, res'.r.val.id>> \in hist.last[kind]
                         ELSE /\ KeyOf(kind, res'.r.val) = key
                              /\ live' = [live EXCEPT ![kind] = Append(@, res'.r.val)]
        /\ res'.op # "tombstones.remove" =>
              \A kind \in Kinds : SubSeq(live'[kind], 1, Len(live[kind])) = live[kind]
        /\ NoDupKeys(live') ]_vars

\* a create_or_get with other times found the tombstone stored under its key
\* and returned it: the store still holds that one tombstone
C5_Witness ==
    /\ res.op = "tombstones.create_or_get"
    /\ res.r.val.min_time # res.args[4]
    /\ <<SubSeq(res.args, 1, 3), res.r.val.id>> \in hist.last["tombstones"]
    /\ live.tombstones = <<res.r.val>>

\* the index of namespace id, table (name, namespace) and column (name, table)
\* in store s, 0 when it holds none
NamespaceAt(s, namespace_id) ==
    First({j \in 1..Len(s.namespaces) : s.namespaces[j].id = namespace_id})
TableAt(s, name, namespace_id) ==
    First({j \in 1..Len(s.tables) :
              s.tables[j].name = name /\ s.tables[j].namespace_id = namespace_id})
ColumnAt(s, name, table_id) ==
    First({j \in 1..Len(s.columns) :
              s.columns[j].name = name /\ s.columns[j].table_id = table_id})

\* C6 (as claimed): tables.create_or_get for a table that exists in the
\* namespace, and columns.create_or_get for a column that exists in the table
\* with the same type, return the existing row and leave the store as it is,
\* however many tables or columns there are.
C6_GetExistingAtAnyCount ==
    [][/\ \A q \in TableRequests :
            (/\ Called("tables.create_or_get")
             /\ res'.args = q
             /\ TableAt(live, q[1], q[2]) # 0)
              => /\ res'.r.err = "Ok"
                 /\ res'.r.val = live.tables[TableAt(live, q[1], q[2])]
                 /\ live' = live
       /\ (/\ Called("columns.create_or_get")
           /\ ColumnAt(live, res'.args[1], res'.args[2]) # 0
           /\ live.columns[ColumnAt(live, res'.args[1], res'.args[2])].column_type
                = res'.args[3])
            => /\ res'.r.err = "Ok"
               /\ res'.r.val = live.columns[ColumnAt(live, res'.args[1], res'.args[2])]
               /\ live' = live]_vars

\* C7: a tables.create_or_get for a table the namespace does not hold yet
\* succeeds and adds the table while the namespace holds fewer than max_tables
\* tables, and fails with TableCreateLimitError { table_name } and adds nothing
\* once it holds max_tables; the number of tables of a namespace never exceeds
\* the largest max_tables that was in force when one of them was created.
C7_TableCap ==
    [][/\ \A q \in TableRequests :
            (/\ Called("tables.create_or_get")
             /\ res'.args = q
             /\ NamespaceAt(live, q[2]) # 0
             /\ TableAt(live, q[1], q[2]) = 0)
              => IF TablesCount(live, q[2]) < MaxTablesOf(live, q[2])
                 THEN /\ res'.r.err = "Ok"
                      /\ res'.r.val.name = q[1]
                      /\ TablesCount(live', q[2]) = TablesCount(live, q[2]) + 1
                 ELSE /\ res'.r.err = "TableCreateLimitError"
                      /\ res'.r.val.table_name = q[1]
                      /\ live' = live
       /\ \A n \in 1..3 : TablesCount(live', n) <= hist'.hi_tables[n]]_vars

\* with max_tables = MaxLimit and MaxLimit tables in the namespace, one more
\* table was refused
C7_Witness ==
    /\ res.op = "tables.create_or_get"
    /\ res.r.err = "TableCreateLimitError"
    /\ MaxLimit >= 2
    /\ NamespaceAt(live, res.args[2]) # 0
    /\ MaxTablesOf(live, res.args[2]) = MaxLimit
    /\ TablesCount(live, res.args[2]) = MaxLimit
    /\ TableAt(live, res.args[1], res.args[2]) = 0

\* max_columns_per_table of the namespace of the table with this id in store s
MaxColumnsOf(s, table_id) ==
    LET t == First({j \in 1..Len(s.tables) : s.tables[j].id = table_id})
    IN  s.namespaces[NamespaceAt(s, s.tables[t].namespace_id)].max_columns_per_table

\* the table with this id is in store s
TableExists(s, table_id) == \E j \in 1..Len(s.tables) : s.tables[j].id = table_id

\* C8: a columns.create_or_get for a column the table does not hold yet
\* succeeds and adds the column while the table holds fewer than
\* max_columns_per_table columns, and fails with ColumnCreateLimitError and
\* adds nothing once the table holds that many; only the columns of the same
\* table count.
C8_ColumnCap ==
    [][\A q \in ColumnRequests :
         (/\ Called("columns.create_or_get")
          /\ res'.args = q
          /\ TableExists(live, q[2])
          /\ ColumnAt(live, q[1], q[2]) = 0)
           => IF ColumnsCount(live, q[2]) < MaxColumnsOf(live, q[2])
              THEN /\ res'.r.err = "Ok"
                   /\ res'.r.val.name = q[1]
                   /\ res'.r.val.table_id = q[2]
                   /\ ColumnsCount(live', q[2]) = ColumnsCount(live, q[2]) + 1
              ELSE /\ res'.r.err = "ColumnCreateLimitError"
                   /\ live' = live]_vars

\* a table that holds max_columns_per_table = MaxLimit columns refused one
\* more, while the store holds a column of another table as well
C8_Witness ==
    /\ res.op = "columns.create_or_get"
    /\ res.r.err = "ColumnCreateLimitError"
    /\ MaxLimit >= 2
    /\ MaxColumnsOf(live, res.args[2]) = MaxLimit
    /\ ColumnsCount(live, res.args[2]) = MaxLimit
    /\ Len(live.columns) > MaxLimit
    /\ ColumnAt(live, res.args[1], res.args[2]) = 0

\* C9 (as claimed): once column (name, table) exists with type T, every
\* columns.create_or_get for it with another type fails with
\* ColumnTypeMismatch { existing: T, new: T' }, and no step changes the type
\* of a stored column.
C9_TypeMismatchAlways ==
    [][/\ \A q \in ColumnRequests :
            (/\ Called("columns.create_or_get")
             /\ res'.args = q
             /\ ColumnAt(live, q[1], q[2]) # 0
             /\ live.columns[ColumnAt(live, q[1], q[2])].column_type # q[3])
              => /\ res'.r.err = "ColumnTypeMismatch"
                 /\ res'.r.val.existing = live.columns[ColumnAt(live, q[1], q[2])].column_type
                 /\ res'.r.val.new = q[3]
       /\ \A j \in 1..Len(live.columns) :
            /\ j <= Len(live'.columns)
            /\ live'.columns[j] = live.columns[j]]_vars

\* no two rows of a kind in store s share an id
UniqueIds(s) ==
    \A kind \in IdKinds : \A i, j \in 1..Len(s[kind]) :
        s[kind][i].id = s[kind][j].id => i = j

\* C10 as stated: ids are unique and monotonic per kind, also after
\* tombstones.remove and parquet_files.delete_old: no two rows of a kind in
\* the store share an id, and a row that is created gets an id above every id
\* that was given to a row of its kind before.
C10_IdsUniqueAndMonotonic ==
    [][ /\ UniqueIds(live')
        /\ \A kind \in IdKinds :
              Len(live'[kind]) > Len(live[kind]) =>
                  \A a \in hist.alloc[kind] : a < live'[kind][Len(live'[kind])].id ]_vars

\* store s holds a tombstone (a parquet file) with this id
TombstoneExists(s, id) == \E j \in 1..Len(s.tombstones) : s.tombstones[j].id = id
FileExists(s, id) == \E j \in 1..Len(s.parquet_files) : s.parquet_files[j].id = id

\* store s holds the pair (parquet_file_id, tombstone_id)
PairExists(s, parquet_file_id, tombstone_id) ==
    \E j \in 1..Len(s.processed_tombstones) :
        /\ s.processed_tombstones[j].tombstone_id = tombstone_id
        /\ s.processed_tombstones[j].parquet_file_id = parquet_file_id

\* C11: after tombstones.remove(ids) no tombstone with an id in ids and no
\* processed tombstone with a tombstone_id in ids is in the store, every other
\* tombstone and processed tombstone is kept as it was, in order, and nothing
\* else changes; after every step each processed tombstone in the store
\* references a tombstone that is in the store.
C11_RemoveCascades ==
    [][ /\ Called("tombstones.remove") =>
              LET ids == res'.args[1]
              IN  /\ \A j \in 1..Len(live'.tombstones) : live'.tombstones[j].id \notin ids
                  /\ \A j \in 1..Len(live'.processed_tombstones) :
                        live'.processed_tombstones[j].tombstone_id \notin ids
                  /\ live'.tombstones =
                        SelectSeq(live.tombstones, LAMBDA ts : ts.id \notin ids)
                  /\ live'.processed_tombstones =
                        SelectSeq(live.processed_tombstones,
                                  LAMBDA pt : pt.tombstone_id \notin ids)
                  /\ live' = [live EXCEPT
                                !.tombstones = live'.tombstones,
                                !.processed_tombstones = live'.processed_tombstones]
        /\ \A j \in 1..Len(live'.processed_tombstones) :
              TombstoneExists(live', live'.processed_tombstones[j].tombstone_id) ]_vars

\* tombstones.remove([1]) has returned: the tombstone that was last returned
\* with id 1 is gone with its processed tombstones, while tombstone 2 and the
\* processed tombstone of file 1 that references it are still there
C11_Witness ==
    /\ res.op = "tombstones.remove"
    /\ res.args = <<{1}>>
    /\ <<<<1, 1, 1>>, 1>> \in hist.last["tombstones"]
    /\ Len(live.tombstones) = 1
    /\ live.tombstones[1].id = 2
    /\ live.tombstones[1].sequence_number = 2
    /\ live.processed_tombstones = <<[tombstone_id |-> 2, parquet_file_id |-> 1]>>

\* C12: processed_tombstones.create(file, tombstone) fails with FileNotFound
\* when the file is not in the store, else with TombstoneNotFound when the
\* tombstone is not, else with ProcessTombstoneExists when the pair is
\* recorded, and changes nothing then; otherwise it records the pair; after
\* every step the store holds no pair twice.
C12_ProcessedCreate ==
    [][ /\ Called("processed_tombstones.create") =>
              LET f == res'.args[1]
                  t == res'.args[2]
              IN  IF ~FileExists(live, f)
                  THEN res'.r = Err("FileNotFound", [id |-> f]) /\ live' = live
                  ELSE IF ~TombstoneExists(live, t)
                  THEN res'.r = Err("TombstoneNotFound", [id |-> t]) /\ live' = live
                  ELSE IF PairExists(live, f, t)
                  THEN /\ res'.r.err = "ProcessTombstoneExists"
                       /\ res'.r.val = [parquet_file_id |-> f, tombstone_id |-> t]
                       /\ live' = live
                  ELSE /\ res'.r = Ok([tombstone_id |-> t, parquet_file_id |-> f])
                       /\ live' = [live EXCEPT !.processed_tombstones =
                                       Append(@, [tombstone_id |-> t,
                                                  parquet_file_id |-> f])]
        /\ \A i, j \in 1..Len(live'.processed_tombstones) :
              live'.processed_tombstones[i] = live'.processed_tombstones[j] => i = j ]_vars

\* a pair that is recorded was offered again and refused, after the same call
\* was refused for a file and for a tombstone that the store does not hold
C12_Witness ==
    /\ res.op = "processed_tombstones.create"
    /\ res.r.err = "ProcessTombstoneExists"
    /\ PairExists(live, res.args[1], res.args[2])
    /\ ~FileExists(live, 2)
    /\ Len(live.processed_tombstones) = 1

\* the index in store s of the parquet file with this object store id, 0 for none
FileAt(s, object_store_id) ==
    First({j \in 1..Len(s.parquet_files) :
              s.parquet_files[j].object_store_id = object_store_id})

\* C13: parquet_files.create with an object_store_id that a file in the store
\* holds, flagged for deletion or not, fails with FileExists and adds nothing;
\* otherwise it adds the file; after every step object_store_id is unique
\* across the parquet files in the store.
C13_ObjectStoreIdUnique ==
    [][ /\ Called("parquet_files.create") =>
              LET u == res'.args[1].object_store_id
              IN  IF FileAt(live, u) # 0
                  THEN /\ res'.r = Err("FileExists", [object_store_id |-> u])
                       /\ live' = live
                  ELSE /\ res'.r.err = "Ok"
                       /\ res'.r.val.object_store_id = u
                       /\ live' = [live EXCEPT !.parquet_files = Append(@, res'.r.val)]
        /\ \A i, j \in 1..Len(live'.parquet_files) :
              live'.parquet_files[i].object_store_id
                  = live'.parquet_files[j].object_store_id => i = j ]_vars

\* the object store id of a file that is flagged for deletion, and still in the
\* store, was offered again and refused
C13_Witness ==
    /\ res.op = "parquet_files.create"
    /\ res.r.err = "FileExists"
    /\ FileAt(live, res.args[1].object_store_id) # 0
    /\ live.parquet_files[FileAt(live, res.args[1].object_store_id)].to_delete # <<>>

\* C17: parquet_files.delete_old(threshold) returns, and removes from the
\* store, exactly the files whose to_delete is set and strictly less than
\* threshold; every other file stays as it was, in order; no other call
\* removes a file, and to_delete of a file is only set by a flag_for_delete
\* on its id, so a file is removed only after a flag_for_delete on it.
C17_DeleteOld ==
    [][ /\ Called("parquet_files.delete_old") =>
              LET threshold == res'.args[1]
              IN  /\ res'.r.err = "Ok"
                  /\ res'.r.val =
                        SelectSeq(live.parquet_files,
                                  LAMBDA f : /\ f.to_delete # <<>>
                                             /\ f.to_delete[1] < threshold)
                  /\ live' = [live EXCEPT !.parquet_files =
                                  SelectSeq(@, LAMBDA f : \/ f.to_delete = <<>>
                                                          \/ f.to_delete[1] >= threshold)]
        /\ \A i \in 1..Len(live.parquet_files) :
              LET f == live.parquet_files[i]
                  j == FileAt(live', f.object_store_id)
              IN  /\ j = 0 => res'.op = "parquet_files.delete_old" /\ f.to_delete # <<>>
                  /\ j # 0 /\ live'.parquet_files[j] # f =>
                        /\ res'.op = "parquet_files.flag_for_delete"
                        /\ res'.args[1] = f.id
                        /\ live'.parquet_files[j] = [f EXCEPT !.to_delete = <<now>>] ]_vars

\* delete_old has returned one file, and the file that was flagged at the
\* threshold is still in the store
C17_Witness ==
    /\ res.op = "parquet_files.delete_old"
    /\ Len(res.r.val) = 1
    /\ Len(live.parquet_files) = 1
    /\ live.parquet_files[1].to_delete = <<res.args[1]>>

\* store s holds a namespace, a shard, a partition with this id
NamespaceExists(s, id) == \E j \in 1..Len(s.namespaces) : s.namespaces[j].id = id
ShardExists(s, id) == \E j \in 1..Len(s.shards) : s.shards[j].id = id
PartitionExists(s, id) == \E j \in 1..Len(s.partitions) : s.partitions[j].id = id

\* the row a step pushed to collection kind
Pushed(kind) == live'[kind][Len(live'[kind])]

\* C14 as stated: a step inserts a row only if every parent the row references
\* is in the store at that time: a table its namespace, a column its table, a
\* partition its shard and table, a tombstone its table and shard, a parquet
\* file its shard, namespace, table and partition.
C14_ParentsExist ==
    [][ /\ Len(live'.tables) > Len(live.tables) =>
              NamespaceExists(live, Pushed("tables").namespace_id)
        /\ Len(live'.columns) > Len(live.columns) =>
              TableExists(live, Pushed("columns").table_id)
        /\ Len(live'.partitions) > Len(live.partitions) =>
              /\ ShardExists(live, Pushed("partitions").shard_id)
              /\ TableExists(live, Pushed("partitions").table_id)
        /\ Len(live'.tombstones) > Len(live.tombstones) =>
              /\ TableExists(live, Pushed("tombstones").table_id)
              /\ ShardExists(live, Pushed("tombstones").shard_id)
        /\ Len(live'.parquet_files) > Len(live.parquet_files) =>
              /\ ShardExists(live, Pushed("parquet_files").shard_id)
              /\ NamespaceExists(live, Pushed("parquet_files").namespace_id)
              /\ TableExists(live, Pushed("parquet_files").table_id)
              /\ PartitionExists(live, Pushed("parquet_files").partition_id) ]_vars

\* C16 as stated: for all timestamps a, b, c, d the overlap test of a stored
\* range [a,b] against a query range [c,d] is true exactly when a <= d and
\* c <= b.
C16_OverlapIsSymmetricTest ==
    res.op = "overlaps" =>
        (res.r.val <=> (res.args[1] <= res.args[4] /\ res.args[3] <= res.args[2]))

\* C16, amended: for all timestamps with a <= b and c <= d the overlap test of
\* a stored range [a,b] against a query range [c,d] is true exactly when
\* a <= d and c <= b.
C16_OverlapOfRanges ==
    (/\ res.op = "overlaps"
     /\ res.args[1] <= res.args[2]
     /\ res.args[3] <= res.args[4]) =>
        (res.r.val <=> (res.args[1] <= res.args[4] /\ res.args[3] <= res.args[2]))

\* a stored range that starts after the query range starts and at its end
\* was found to overlap it
C16_Witness ==
    /\ res.op = "overlaps"
    /\ res.args[1] < res.args[2]
    /\ res.args[3] < res.args[4]
    /\ res.args[1] = res.args[4]
    /\ res.r.val = TRUE

\* C15: what list_tombstones_for_time_range(shard, table, after_seq, min_t,
\* max_t) has returned is, in the order of the store, tombstones of the store
\* that are of that shard and table with a sequence number strictly greater
\* than after_seq; for min_t <= max_t they are exactly those of them whose
\* range min_time..max_time has a timestamp in min_t..max_t.
C15_ListForTimeRange ==
    res.op = "tombstones.list_tombstones_for_time_range" =>
        LET shard  == res.args[1]
            table  == res.args[2]
            after  == res.args[3]
            min_t  == res.args[4]
            max_t  == res.args[5]
            listed == Range(res.r.val)
        IN  /\ res.r.err = "Ok"
            /\ res.r.val = SelectSeq(live.tombstones, LAMBDA t : t \in listed)
            /\ \A t \in listed :
                  t.shard_id = shard /\ t.table_id = table /\ t.sequence_number > after
            /\ min_t <= max_t =>
                  \A t \in Range(live.tombstones) :
                      t \in listed <=>
                          /\ t.shard_id = shard
                          /\ t.table_id = table
                          /\ t.sequence_number > after
                          /\ (t.min_time..t.max_time) \cap (min_t..max_t) # {}

\* of two tombstones of the shard and table whose ranges both meet the query
\* range at its first timestamp, the list holds the later one only: the
\* other has the sequence number the list was asked to start after
C15_Witness ==
    /\ res.op = "tombstones.list_tombstones_for_time_range"
    /\ Len(live.tombstones) = 2
    /\ Len(res.r.val) = 1
    /\ res.args[4] < res.args[5]
    /\ \A j \in 1..2 :
          /\ live.tombstones[j].shard_id = res.args[1]
          /\ live.tombstones[j].table_id = res.args[2]
          /\ live.tombstones[j].max_time = res.args[4]
    /\ \E j \in 1..2 : live.tombstones[j].sequence_number = res.args[3]

-----------------------------------------------------------------------------
(* Files flagged for deletion *)

\* the queries of parquet files that leave out the files flagged for deletion
NotToDeleteQueries ==
    { "parquet_files.level_0", "parquet_files.level_1",
      "parquet_files.list_by_table_not_to_delete",
      "parquet_files.list_by_partition_not_to_delete" }

\* C18: no file that level_0, level_1, list_by_table_not_to_delete or
\* list_by_partition_not_to_delete has returned carries an id that an earlier
\* flag_for_delete(id) succeeded for.
C18_FlaggedIdNeverListed ==
    res.op \in NotToDeleteQueries =>
        \A f \in Range(res.r.val) : f.id \notin hist.flagged

-----------------------------------------------------------------------------
(* The partitions the compactor is given *)

\* the files of partition partition_id in store s that
\* recent_highest_throughput_partitions(shard, since, ..) speaks of: on the
\* shard, at level 0, not flagged for deletion, created after since
RecentOf(s, partition_id, shard, since) ==
    {i \in 1..Len(s.parquet_files) :
        /\ s.parquet_files[i].partition_id = partition_id
        /\ s.parquet_files[i].shard_id = shard
        /\ s.parquet_files[i].compaction_level = 0
        /\ s.parquet_files[i].to_delete = <<>>
        /\ s.parquet_files[i].created_at > since}

\* the files of partition partition_id in store s that
\* most_cold_files_partitions(shard, ..) speaks of: on the shard, at level 0
\* or 1, not flagged for deletion
ColdOf(s, partition_id, shard) ==
    {i \in 1..Len(s.parquet_files) :
        /\ s.parquet_files[i].partition_id = partition_id
        /\ s.parquet_files[i].shard_id = shard
        /\ s.parquet_files[i].compaction_level \in {0, 1}
        /\ s.parquet_files[i].to_delete = <<>>}

\* the partition ids of the files of store s
PartitionIds(s) == {s.parquet_files[i].partition_id : i \in 1..Len(s.parquet_files)}

\* C19: what recent_highest_throughput_partitions(shard, since, min_files, k)
\* has returned is a list without repetition of at most k partitions of the
\* shard, each with at least min_files files that are on the shard, at level
\* 0, not flagged for deletion and created after since, none of them recorded
\* as skipped, in descending order of that count; a partition that qualifies
\* and is left out has no greater count than any returned one, and none is
\* left out while fewer than k are returned.
C19_RecentHighestThroughput ==
    res.op = "parquet_files.recent_highest_throughput_partitions" =>
        LET shard     == res.args[1]
            since     == res.args[2]
            min_files == res.args[3]
            k         == res.args[4]
            out       == res.r.val
            Count(partition_id) == Cardinality(RecentOf(live, partition_id, shard, since))
            qualifying == {partition_id \in PartitionIds(live) \ SkippedPartitions(live) :
                              Count(partition_id) >= min_files}
            returned   == {out[i].partition_id : i \in 1..Len(out)}
        IN  /\ res.r.err = "Ok"
            /\ Len(out) <= k
            /\ Cardinality(returned) = Len(out)
            /\ \A i \in 1..Len(out) :
                  /\ out[i].shard_id = shard
                  /\ Count(out[i].partition_id) >= min_files
                  /\ out[i].partition_id \notin SkippedPartitions(live)
            /\ \A i, j \in 1..Len(out) :
                  i < j => Count(out[i].partition_id) >= Count(out[j].partition_id)
            /\ \A omitted \in qualifying \ returned :
                  /\ Len(out) = k
                  /\ \A partition_id \in returned : Count(omitted) <= Count(partition_id)

\* a state for C19: asked for one partition with at least one file, the query
\* has returned a partition with two files counted and left out a qualifying
\* partition with one
C19_Witness ==
    /\ res.op = "parquet_files.recent_highest_throughput_partitions"
    /\ res.args[3] = 1
    /\ res.args[4] = 1
    /\ Len(res.r.val) = 1
    /\ Cardinality(RecentOf(live, res.r.val[1].partition_id, res.args[1], res.args[2])) = 2
    /\ \E partition_id \in PartitionIds(live) \ SkippedPartitions(live) :
          /\ partition_id # res.r.val[1].partition_id
          /\ Cardinality(RecentOf(live, partition_id, res.args[1], res.args[2])) = 1

\* C20: what most_cold_files_partitions(shard, before, k) has returned is a
\* list without repetition of at most k partitions of the shard, each with
\* files on the shard at level 0 or 1 and not flagged for deletion, all of
\* them created before the time before, none recorded as skipped, in
\* descending order of the count of those files; a partition with such a
\* file created at or after before is not returned, and a partition that is
\* cold and not skipped is left out only when k are returned, none of them
\* with a smaller count.
C20_MostColdFiles ==
    res.op = "parquet_files.most_cold_files_partitions" =>
        LET shard  == res.args[1]
            before == res.args[2]
            k      == res.args[3]
            out    == res.r.val
            Count(partition_id) == Cardinality(ColdOf(live, partition_id, shard))
            Cold(partition_id) ==
                /\ ColdOf(live, partition_id, shard) # {}
                /\ \A i \in ColdOf(live, partition_id, shard) :
                      live.parquet_files[i].created_at < before
            candidates == {partition_id \in PartitionIds(live) \ SkippedPartitions(live) :
                              Cold(partition_id)}
            returned   == {out[i].partition_id : i \in 1..Len(out)}
        IN  /\ res.r.err = "Ok"
            /\ Len(out) <= k
            /\ Cardinality(returned) = Len(out)
            /\ \A i \in 1..Len(out) :
                  /\ out[i].shard_id = shard
                  /\ Cold(out[i].partition_id)
                  /\ out[i].partition_id \notin SkippedPartitions(live)
            /\ \A i, j \in 1..Len(out) :
                  i < j => Count(out[i].partition_id) >= Count(out[j].partition_id)
            /\ \A omitted \in candidates \ returned :
                  /\ Len(out) = k
                  /\ \A partition_id \in returned : Count(omitted) <= Count(partition_id)

\* a state for C20: asked for one partition, the query has returned a
\* partition with one cold file while a skipped partition has two cold files
C20_Witness ==
    /\ res.op = "parquet_files.most_cold_files_partitions"
    /\ res.args[3] = 1
    /\ Len(res.r.val) = 1
    /\ Cardinality(ColdOf(live, res.r.val[1].partition_id, res.args[1])) = 1
    /\ \E partition_id \in SkippedPartitions(live) :
          /\ Cardinality(ColdOf(live, partition_id, res.args[1])) = 2
          /\ \A i \in ColdOf(live, partition_id, res.args[1]) :
                live.parquet_files[i].created_at < res.args[2]

\* the two queries that give the compactor its candidate partitions
CandidateQueries ==
    { "parquet_files.recent_highest_throughput_partitions",
      "parquet_files.most_cold_files_partitions" }

\* C21: a call of recent_highest_throughput_partitions, or of
\* most_cold_files_partitions, that follows a call of the same query with the
\* same arguments on the same store returns the same partitions in the same
\* order.
C21_SameCandidatesAgain ==
    [][ ( /\ res.op \in CandidateQueries
          /\ res'.op = res.op
          /\ res'.args = res.args
          /\ live' = live )
        => res'.r.val = res.r.val ]_vars

-----------------------------------------------------------------------------
(* One-shot handles *)

\* C22: commit_inplace and abort_inplace on a one-shot handle panic and leave
\* the live store alone; a topic created through a one-shot handle is in the
\* live store at once, tombstones removed through it are gone from the live
\* store at once, and the handle that is returned next works on that live
\* store.
C22_OneshotNeverFinalizes ==
    [][ /\ \A t \in Tasks :
              (handle[t].kind = "NoTxn" /\ res'.task = t) =>
                  /\ res'.op \in {"commit", "abort"} =>
                        res'.r.err = "Panic" /\ live' = live
                  /\ res'.op = "topics.create_or_get" =>
                        res'.r.val \in Range(live'.topics)
                  /\ res'.op = "tombstones.remove" =>
                        \A i \in 1..Len(live'.tombstones) :
                            live'.tombstones[i].id \notin res'.args[1]
        /\ \A t \in Tasks :
              (handle[t].kind = "None" /\ handle'[t].kind # "None") =>
                  IF handle'[t].kind = "Txn" THEN handle'[t].stage = live' ELSE live' = live
      ]_vars

\* a state for C22: commit on a one-shot handle has panicked after a topic was
\* created through the handle, and the topic is in the live store
C22_Witness ==
    /\ res.op = "commit"
    /\ res.r.err = "Panic"
    /\ live.topics # <<>>
    /\ \A t \in Tasks : handle[t].kind = "None"

-----------------------------------------------------------------------------
(* The tombstone cache *)

\* a TombstoneCache::get has returned
GetReturned == res.op = "tombstone_cache.get" /\ res.r.err = "Ok"

\* the tombstones of the table in the catalog
InCatalog(table_id) == TombstoneListByTable(live, table_id).r.val

\* C23: a get(table, None) that found an entry for the table has returned
\* that entry as it was and has not loaded from the catalog, whatever the
\* catalog holds for the table by then; one that found no entry has loaded
\* the tombstones of the table from the catalog.
C23_GetNoneReturnsEntry ==
    (GetReturned /\ res.args[2] = <<>>) =>
        IF hist.got.had # <<>>
        THEN res.r.val = hist.got.had[1] /\ ~hist.got.loaded
        ELSE hist.got.loaded /\ res.r.val = InCatalog(res.args[1])

\* a state for C23: get(table, None) has returned an entry that is not what
\* the catalog holds for the table
C23_Witness ==
    /\ GetReturned
    /\ res.args[2] = <<>>
    /\ hist.got.had # <<>>
    /\ res.r.val # InCatalog(res.args[1])

C25_GetSomeClearsIfAbsent ==
    ( /\ GetReturned
      /\ res.args[2] # <<>>
      /\ hist.got.had # <<>>
      /\ \A i \in 1..Len(hist.got.had[1]) :
            hist.got.had[1][i].sequence_number # res.args[2][1] )
    => hist.got.loaded

\* a get is in flight or has returned a list, and after failed attempts it has
\* returned what a later attempt loaded from the catalog
OnlyLoadedReturned ==
    /\ res.op = "tombstone_cache.get" => res.r.err \in {"Ok", "Pending"}
    /\ (GetReturned /\ hist.got.failed > 0) =>
           hist.got.loaded /\ res.r.val = InCatalog(res.args[1])

\* C26: a get never returns an error of the catalog; a get whose attempts to
\* load failed has returned only with what a later attempt loaded from the
\* catalog; and, the catalog failing no more than MaxFailures attempts of a
\* load, every get that waits for the loader returns in the end.
C26_LoadRetriedUntilLoaded ==
    /\ []OnlyLoadedReturned
    /\ (getting # NoGet) ~> (getting = NoGet /\ GetReturned)

\* a state for C26: a get has returned the tombstones of the catalog after
\* MaxFailures attempts to load them failed
C26_Witness ==
    /\ GetReturned
    /\ hist.got.failed = MaxFailures
    /\ hist.got.loaded
    /\ res.r.val # <<>>

-----------------------------------------------------------------------------
(* clap_blocks: the compactor's command line. The values of the flags are   *)
(* written as on the command line and in the default_value attributes; a    *)
(* flag is an Option: <<>> when it is not given, <<v>> when it is.          *)

ConfigFields ==
    { "topic", "shard_index_range_start", "shard_index_range_end",
      "max_desired_file_size_bytes", "percentage_max_file_size",
      "split_percentage", "max_number_partitions_per_shard",
      "min_number_recent_ingested_files_per_partition", "hot_multiple",
      "memory_budget_bytes",
      "min_num_rows_allocated_per_record_batch_to_datafusion_plan",
      "max_num_compacting_files" }

\* the two shard indexes have no default_value: clap requires them
RequiredFlags == {"shard_index_range_start", "shard_index_range_end"}

\* the default_value of each flag; hot_multiple's is the macro's argument
DefaultValue(hot_multiple_default) ==
    [ topic                       |-> "iox-shared",
      max_desired_file_size_bytes |-> "26214400",
      percentage_max_file_size    |-> "80",
      split_percentage            |-> "80",
      max_number_partitions_per_shard |-> "1",
      min_number_recent_ingested_files_per_partition |-> "1",
      hot_multiple                |-> hot_multiple_default,
      memory_budget_bytes         |-> "32212254720",
      min_num_rows_allocated_per_record_batch_to_datafusion_plan |-> "8192",
      max_num_compacting_files    |-> "20" ]

\* gen_compactor_config!: the struct clap fills from the flags
GenCompactorConfig(hot_multiple_default, flags) ==
    [ f \in ConfigFields |->
        IF flags[f] # <<>> THEN flags[f][1]
        ELSE DefaultValue(hot_multiple_default)[f] ]

CompactorConfig(flags) == GenCompactorConfig("4", flags)

CompactorOnceConfig(flags) == GenCompactorConfig("1", flags)

\* a conversion that fills hot_multiple with the server's default
IntoCompactorConfigServerDefault(self) ==
    [self EXCEPT !.hot_multiple = DefaultValue("4").hot_multiple]

IntoCompactorConfig(self) ==
    [ topic                       |-> self.topic,
      shard_index_range_start     |-> self.shard_index_range_start,
      shard_index_range_end       |-> self.shard_index_range_end,
      max_desired_file_size_bytes |-> self.max_desired_file_size_bytes,
      percentage_max_file_size    |-> self.percentage_max_file_size,
      split_percentage            |-> self.split_percentage,
      max_number_partitions_per_shard |-> self.max_number_partitions_per_shard,
      min_number_recent_ingested_files_per_partition |->
          self.min_number_recent_ingested_files_per_partition,
      hot_multiple                |-> self.hot_multiple,
      memory_budget_bytes         |-> self.memory_budget_bytes,
      min_num_rows_allocated_per_record_batch_to_datafusion_plan |->
          self.min_num_rows_allocated_per_record_batch_to_datafusion_plan,
      max_num_compacting_files    |-> self.max_num_compacting_files ]

\* the command lines tried: every flag with a default is given or not, the
\* shard range is always given, hot_multiple is given as either default or
\* as another value
CommandLines ==
    [ topic                       : {<<>>, <<"other">>},
      shard_index_range_start     : {<<"0">>},
      shard_index_range_end       : {<<"0">>, <<"1">>},
      max_desired_file_size_bytes : {<<>>, <<"1024">>},
      percentage_max_file_size    : {<<>>, <<"30">>},
      split_percentage            : {<<>>, <<"90">>},
      max_number_partitions_per_shard : {<<>>, <<"2">>},
      min_number_recent_ingested_files_per_partition : {<<>>, <<"2">>},
      hot_multiple                : {<<>>, <<"1">>, <<"2">>, <<"4">>},
      memory_budget_bytes         : {<<>>, <<"1024">>},
      min_num_rows_allocated_per_record_batch_to_datafusion_plan : {<<>>, <<"1">>},
      max_num_compacting_files    : {<<>>, <<"2">>} ]

\* `compactor run-once` has parsed its command line
InitConfig ==
    /\ live = EmptyCollections
    /\ holder = NoTask
    /\ waitq = <<>>
    /\ handle = [t \in Tasks |-> NoHandle]
    /\ \E flags \in CommandLines :
          res = Result("compactor run-once", NoTask, <<flags>>,
                       Ok(CompactorOnceConfig(flags)))
    /\ now = 0
    /\ hist = NoHistory
    /\ cache = NoEntries
    /\ getting = NoGet
    /\ planner = NoPlanning

\* run-once hands its configuration to the code of the server
IntoCompactorConfigCall ==
    /\ res.op = "compactor run-once"
    /\ res' = Result("into_compactor_config", NoTask, <<res.r.val>>,
                     Ok(IntoCompactorConfig(res.r.val)))
    /\ UNCHANGED <<live, holder, waitq, handle, now, hist, cache, getting, planner>>

\* `run compactor` parses the same command line
RunCompactor ==
    /\ res.op = "compactor run-once"
    /\ res' = Result("run compactor", NoTask, res.args,
                     Ok(CompactorConfig(res.args[1])))
    /\ UNCHANGED <<live, holder, waitq, handle, now, hist, cache, getting, planner>>

NextConfig == IntoCompactorConfigCall \/ RunCompactor

SpecConfig == InitConfig /\ [][NextConfig]_vars

\* C27: the configuration into_compactor_config returns has the twelve fields
\* of the run-once configuration it was given, each with the same value; and
\* parsed from the same command line, the run-once and the server
\* configuration differ in hot_multiple alone, and only when the flag is not
\* given: then run-once has 1 and the server has 4.
C27_IntoCompactorConfigLossless ==
    /\ res.op = "into_compactor_config" =>
          /\ DOMAIN res.r.val = ConfigFields
          /\ DOMAIN res.args[1] = ConfigFields
          /\ Cardinality(ConfigFields) = 12
          /\ \A f \in ConfigFields : res.r.val[f] = res.args[1][f]
    /\ res.op = "run compactor" =>
          LET once == CompactorOnceConfig(res.args[1])
          IN  /\ \A f \in ConfigFields \ {"hot_multiple"} : res.r.val[f] = once[f]
              /\ IF res.args[1].hot_multiple = <<>>
                 THEN once.hot_multiple = "1" /\ res.r.val.hot_multiple = "4"
                 ELSE once.hot_multiple = res.r.val.hot_multiple

\* a state for C27: a run-once configuration parsed with no flag but the shard
\* range has been converted, and its hot_multiple is still run-once's default
C27_Witness ==
    /\ res.op = "into_compactor_config"
    /\ res.args[1] = CompactorOnceConfig([f \in ConfigFields |->
                         IF f \in RequiredFlags THEN <<"0">> ELSE <<>>])
    /\ res.r.val.hot_multiple = "1"
    /\ res.r.val.topic = "iox-shared"

-----------------------------------------------------------------------------
(* predicate: InfluxRpcPredicate and its specialisation for one table.      *)
(* An expression is a column, a literal with its type and its text, the     *)
(* CASE a gRPC tag reference arrives as, or a binary expression. A          *)
(* Predicate carries its exprs, its value_expr and its field_columns, an    *)
(* Option of a set of names.                                                *)

MEASUREMENT_COLUMN_NAME == "_measurement"

FIELD_COLUMN_NAME == "_field"

VALUE_COLUMN_NAME == "_value"

Col(name) == [k |-> "col", name |-> name]

Lit(t, v) == [k |-> "lit", t |-> t, v |-> v]

LitBool(b) == Lit("Boolean", IF b THEN "true" ELSE "false")

\* CASE WHEN name IS NULL THEN '' ELSE name END
CaseNullEmpty(name) == [k |-> "case", name |-> name]

Bin(op, l, r) == [k |-> "bin", op |-> op, l |-> l, r |-> r]

\* the columns an expression refers to
RECURSIVE ColumnReferences(_)
ColumnReferences(e) ==
    IF e.k = "bin" THEN ColumnReferences(e.l) \cup ColumnReferences(e.r)
    ELSE IF e.k \in {"col", "case"} THEN {e.name}
    ELSE {}

\* every reference to _measurement becomes the literal name of the table
RECURSIVE RewriteMeasurementReferences(_, _)
RewriteMeasurementReferences(table_name, e) ==
    IF e.k = "bin"
    THEN Bin(e.op, RewriteMeasurementReferences(table_name, e.l),
                   RewriteMeasurementReferences(table_name, e.r))
    ELSE IF e.k = "col" /\ e.name = MEASUREMENT_COLUMN_NAME
    THEN Lit("Utf8", table_name)
    ELSE e

\* an expression on _value moves to field_value_exprs and leaves true behind
RewriteFieldValueReferences(field_value_exprs, e) ==
    IF VALUE_COLUMN_NAME \in ColumnReferences(e)
    THEN [field_value_exprs |-> Append(field_value_exprs, e), e |-> LitBool(TRUE)]
    ELSE [field_value_exprs |-> field_value_exprs, e |-> e]

\* a rewriter that lets an expression pass that mixes _field with another
\* column
RewriteFieldExprsLenient(field_predicates, e) ==
    IF ColumnReferences(e) = {FIELD_COLUMN_NAME}
    THEN [field_predicates |-> Append(field_predicates, e), r |-> Ok(LitBool(TRUE))]
    ELSE [field_predicates |-> field_predicates, r |-> Ok(e)]

\* FieldProjectionRewriter::rewrite_field_exprs: an expression on _field alone
\* is kept as a projection and leaves true behind; one that mixes _field with
\* another column is refused
RewriteFieldExprs(field_predicates, e) ==
    LET refs == ColumnReferences(e)
    IN  IF FIELD_COLUMN_NAME \notin refs
        THEN [field_predicates |-> field_predicates, r |-> Ok(e)]
        ELSE IF refs = {FIELD_COLUMN_NAME}
        THEN [field_predicates |-> Append(field_predicates, e), r |-> Ok(LitBool(TRUE))]
        ELSE [field_predicates |-> field_predicates,
              r |-> Err("Plan", <<"Unsupported _field predicate", e>>)]

\* the text an operand of a comparison on _field has for the field called name
FieldOperand(e, name) ==
    IF e.k = "col" /\ e.name = FIELD_COLUMN_NAME THEN name
    ELSE IF e.k = "lit" THEN e.v
    ELSE ""

\* whether a kept expression on _field holds for the field called name
RECURSIVE EvalFieldPredicate(_, _)
EvalFieldPredicate(e, name) ==
    IF e.k = "lit" THEN e = LitBool(TRUE)
    ELSE IF e.k # "bin" THEN FALSE
    ELSE IF e.op = "=" THEN FieldOperand(e.l, name) = FieldOperand(e.r, name)
    ELSE IF e.op = "!=" THEN FieldOperand(e.l, name) # FieldOperand(e.r, name)
    ELSE IF e.op = "or"
    THEN EvalFieldPredicate(e.l, name) \/ EvalFieldPredicate(e.r, name)
    ELSE IF e.op = "and"
    THEN EvalFieldPredicate(e.l, name) /\ EvalFieldPredicate(e.r, name)
    ELSE FALSE

\* a projection that is the union of what the kept expressions select
AddToPredicateUnion(field_predicates, schema, predicate) ==
    IF field_predicates = <<>>
    THEN Ok(predicate)
    ELSE Ok([predicate EXCEPT !.field_columns =
                <<{name \in schema.fields :
                     \E i \in 1..Len(field_predicates) :
                        EvalFieldPredicate(field_predicates[i], name)}>>])

\* FieldProjectionRewriter::add_to_predicate: with no kept expression the
\* predicate is left as it is; otherwise its field_columns are the fields of
\* the schema for which every kept expression holds
AddToPredicate(field_predicates, schema, predicate) ==
    IF field_predicates = <<>>
    THEN Ok(predicate)
    ELSE Ok([predicate EXCEPT !.field_columns =
                <<{name \in schema.fields :
                     \A i \in 1..Len(field_predicates) :
                        EvalFieldPredicate(field_predicates[i], name)}>>])

\* rewrite::rewrite: the CASE of a tag reference compared with a literal is
\* the tag compared with the literal
RECURSIVE Rewrite(_)
Rewrite(e) ==
    IF e.k # "bin" THEN e
    ELSE IF e.op \in {"=", "!="} /\ e.l.k = "case" /\ e.r.k = "lit"
    THEN Bin(e.op, Col(e.l.name), e.r)
    ELSE Bin(e.op, Rewrite(e.l), Rewrite(e.r))

\* Expr::simplify: comparisons of two literals are evaluated, and true and
\* false are absorbed by AND and OR
RECURSIVE Simplify(_)
Simplify(e) ==
    IF e.k # "bin" THEN e
    ELSE LET l == Simplify(e.l)
             r == Simplify(e.r)
         IN  IF e.op = "=" /\ l.k = "lit" /\ r.k = "lit" THEN LitBool(l = r)
             ELSE IF e.op = "!=" /\ l.k = "lit" /\ r.k = "lit" THEN LitBool(l # r)
             ELSE IF e.op = "or"
             THEN IF l = LitBool(TRUE) \/ r = LitBool(TRUE) THEN LitBool(TRUE)
                  ELSE IF l = LitBool(FALSE) THEN r
                  ELSE IF r = LitBool(FALSE) THEN l
                  ELSE Bin("or", l, r)
             ELSE IF e.op = "and"
             THEN IF l = LitBool(FALSE) \/ r = LitBool(FALSE) THEN LitBool(FALSE)
                  ELSE IF l = LitBool(TRUE) THEN r
                  ELSE IF r = LitBool(TRUE) THEN l
                  ELSE Bin("and", l, r)
             ELSE Bin(e.op, l, r)

\* a filter that keeps every expression
KeepExprAll(expr) == TRUE

\* the filter of normalize_predicate: (*expr) != lit(true)
KeepExpr(expr) == expr # LitBool(TRUE)

\* the map, filter and collect of normalize_predicate over exprs, in order;
\* done holds the expressions kept so far, the collected field_value_exprs and
\* the expressions the FieldProjectionRewriter has kept. The first error ends
\* the collect. rewrite::simplify_predicate changes none of these shapes.
RECURSIVE NormalizeExprs(_, _, _)
NormalizeExprs(table_name, exprs, done) ==
    IF exprs = <<>> THEN Ok(done)
    ELSE LET m == RewriteMeasurementReferences(table_name, Head(exprs))
             v == RewriteFieldValueReferences(done.field_value_exprs, m)
             f == RewriteFieldExprs(done.field_predicates, v.e)
         IN  IF f.r.err # "Ok" THEN f.r
             ELSE LET e == Simplify(Simplify(Rewrite(f.r.val)))
                  IN  NormalizeExprs(table_name, Tail(exprs),
                        [ exprs |-> IF KeepExpr(e) THEN Append(done.exprs, e)
                                    ELSE done.exprs,
                          field_value_exprs |-> v.field_value_exprs,
                          field_predicates  |-> f.field_predicates ])

NormalizePredicate(table_name, schema, predicate) ==
    LET n == NormalizeExprs(table_name, predicate.exprs,
                 [exprs |-> <<>>, field_value_exprs |-> <<>>, field_predicates |-> <<>>])
    IN  IF n.err # "Ok" THEN n
        ELSE AddToPredicate(n.val.field_predicates, schema,
                 [predicate EXCEPT !.exprs = n.val.exprs,
                                   !.value_expr = n.val.field_value_exprs])

\* the names a BTreeSet of table names yields, in its order
BTreeSetIter(names) == SelectSeq(<<"cpu", "foo", "h2o">>, LAMBDA n : n \in names)

\* the tables of the restriction that the database knows
TableNamesIterKnown(self, table_info) ==
    IF self.table_names # <<>>
    THEN SelectSeq(BTreeSetIter(self.table_names[1]),
                   LAMBDA n : table_info.table_schema[n] # <<>>)
    ELSE table_info.table_names

\* the tables table_predicates goes through: those of the restriction if
\* there is one, those of the database otherwise
TableNamesIter(self, table_info) ==
    IF self.table_names # <<>>
    THEN BTreeSetIter(self.table_names[1])
    ELSE table_info.table_names

\* the map and collect of table_predicates; the first error ends the collect
RECURSIVE CollectTablePredicates(_, _, _, _)
CollectTablePredicates(self, table_info, table_names, pairs) ==
    IF table_names = <<>> THEN Ok(pairs)
    ELSE LET table == Head(table_names)
             schema == table_info.table_schema[table]
             predicate == IF schema # <<>>
                          THEN NormalizePredicate(table, schema[1], self.inner)
                          ELSE Ok(self.inner)
         IN  IF predicate.err # "Ok" THEN predicate
             ELSE CollectTablePredicates(self, table_info, Tail(table_names),
                                         Append(pairs, <<table, predicate.val>>))

TablePredicates(self, table_info) ==
    CollectTablePredicates(self, table_info, TableNamesIter(self, table_info), <<>>)

\* the expressions the callers build
MaxExprs == 2

MeasurementEq(table) == Bin("=", Col(MEASUREMENT_COLUMN_NAME), Lit("Utf8", table))

FieldEq(field) == Bin("=", Col(FIELD_COLUMN_NAME), Lit("Utf8", field))

FieldNotEq(field) == Bin("!=", Col(FIELD_COLUMN_NAME), Lit("Utf8", field))

TimeGt5 == Bin(">", Col("time"), Lit("Int64", "5"))

MeasurementExprs == {MeasurementEq("foo"), MeasurementEq("h2o")}

FieldExprs ==
    {FieldEq(f) : f \in {"f1", "f2", "not_a_field"}}
        \cup {FieldNotEq(f) : f \in {"f1", "f2", "not_a_field"}}

OtherExprs ==
    { Bin("=", Col("t1"), Lit("Utf8", "my_awesome_tag_value")),
      Bin("=", CaseNullEmpty("foo"), Lit("Utf8", "bar")),
      Bin(">", Col(VALUE_COLUMN_NAME), Lit("Float64", "1.77")),
      TimeGt5, LitBool(TRUE), LitBool(FALSE) }

SimpleExprs == MeasurementExprs \cup FieldExprs \cup OtherExprs

NestedExprs ==
    {Bin(op, l, r) : op \in {"or", "and"}, l \in SimpleExprs, r \in SimpleExprs}
        \cup {Bin("and", Bin("or", l, r), e) :
                 l \in MeasurementExprs \cup FieldExprs,
                 r \in MeasurementExprs \cup FieldExprs,
                 e \in OtherExprs}

PredicateNew(exprs) == [exprs |-> exprs, value_expr |-> <<>>, field_columns |-> <<>>]

Predicates ==
    {PredicateNew(<<e>>) : e \in NestedExprs}
        \cup UNION {{PredicateNew(exprs) : exprs \in [1..n -> SimpleExprs]} : n \in 0..MaxExprs}

\* the schema of the tests of rpc_predicate.rs and the one of the chunk of
\* the tests of influxrpc.rs
Schemas ==
    { [tags |-> {"t1", "t2"}, fields |-> {"f1", "f2"}],
      [tags |-> {"foo"}, fields |-> {}] }

\* databases: what table_names() and table_schema() answer
Databases ==
    { [ table_names  |-> <<"h2o">>,
        table_schema |-> [n \in {"cpu", "foo", "h2o"} |->
                            IF n = "h2o" THEN <<[tags |-> {"foo"}, fields |-> {}]>>
                            ELSE <<>>] ],
      [ table_names  |-> <<"cpu", "h2o">>,
        table_schema |-> [n \in {"cpu", "foo", "h2o"} |->
                            IF n = "foo" THEN <<>>
                            ELSE <<[tags |-> {"t1", "t2"}, fields |-> {"f1", "f2"}]>>] ] }

TableRestrictions == {<<>>, <<{}>>, <<{"h2o"}>>, <<{"foo"}>>, <<{"cpu", "foo", "h2o"}>>}

\* InfluxRpcPredicate::new
InfluxRpcPredicateNew(table_names, predicate) ==
    [table_names |-> table_names, inner |-> predicate]

InitPredicate ==
    /\ live = EmptyCollections
    /\ holder = NoTask
    /\ waitq = <<>>
    /\ handle = [t \in Tasks |-> NoHandle]
    /\ \E table_names \in TableRestrictions, predicate \in Predicates :
          res = Result("InfluxRpcPredicate::new", NoTask, <<table_names, predicate>>,
                       Ok(InfluxRpcPredicateNew(table_names, predicate)))
    /\ now = 0
    /\ hist = NoHistory
    /\ cache = NoEntries
    /\ getting = NoGet
    /\ planner = NoPlanning

TablePredicatesCall(table_info) ==
    /\ res.op = "InfluxRpcPredicate::new"
    /\ res' = Result("table_predicates", NoTask, <<res.r.val, table_info>>,
                     TablePredicates(res.r.val, table_info))
    /\ UNCHANGED <<live, holder, waitq, handle, now, hist, cache, getting, planner>>

NormalizePredicateCall(table_name, schema) ==
    /\ res.op = "InfluxRpcPredicate::new"
    /\ res' = Result("normalize_predicate", NoTask,
                     <<table_name, schema, res.r.val.inner>>,
                     NormalizePredicate(table_name, schema, res.r.val.inner))
    /\ UNCHANGED <<live, holder, waitq, handle, now, hist, cache, getting, planner>>

NextPredicate ==
    \/ \E table_info \in Databases : TablePredicatesCall(table_info)
    \/ \E table_name \in {"cpu", "foo", "h2o"}, schema \in Schemas :
          NormalizePredicateCall(table_name, schema)

SpecPredicate == InitPredicate /\ [][NextPredicate]_vars

\* the names in a sequence of table names
NamesOf(table_names) == {table_names[i] : i \in 1..Len(table_names)}

\* C28: the pairs table_predicates returns are one for each table of the
\* database when there is no restriction and one for each name of the
\* restriction when there is one, and for no other table; the pair of a table
\* the database has no schema for carries the inner predicate as it is, and
\* the pair of any other table carries the predicate normalised for it.
C28_OnePairPerTable ==
    (res.op = "table_predicates" /\ res.r.err = "Ok") =>
        LET self       == res.args[1]
            table_info == res.args[2]
            pairs      == res.r.val
            wanted     == IF self.table_names = <<>>
                          THEN NamesOf(table_info.table_names)
                          ELSE self.table_names[1]
        IN  /\ {pairs[i][1] : i \in 1..Len(pairs)} = wanted
            /\ Len(pairs) = Cardinality(wanted)
            /\ \A i \in 1..Len(pairs) :
                  IF table_info.table_schema[pairs[i][1]] = <<>>
                  THEN pairs[i][2] = self.inner
                  ELSE Ok(pairs[i][2]) =
                          NormalizePredicate(pairs[i][1],
                                             table_info.table_schema[pairs[i][1]][1],
                                             self.inner)

\* a state for C28: restricted to a table the database does not know,
\* table_predicates has returned the pair of that table, with a literal true
\* still among the expressions of its predicate
C28_Witness ==
    /\ res.op = "table_predicates" /\ res.r.err = "Ok"
    /\ res.args[1].table_names = <<{"foo"}>>
    /\ res.args[2].table_schema["foo"] = <<>>
    /\ Len(res.r.val) = 1
    /\ res.r.val[1][1] = "foo"
    /\ res.r.val[1][2].exprs = <<LitBool(TRUE), MeasurementEq("foo")>>

\* C29: normalised for table T, the predicate _measurement = X has no
\* expression when X = T and the single expression false when X # T;
\* (_measurement = 'foo' OR _measurement = 'h2o') AND time > 5 normalised for
\* h2o has the single expression time > 5; and no normalised predicate has
\* the literal true among its expressions.
C29_MeasurementFolded ==
    (res.op = "normalize_predicate" /\ res.r.err = "Ok") =>
        LET table_name == res.args[1]
            predicate  == res.args[3]
        IN  /\ \A X \in {"foo", "h2o"} :
                  predicate.exprs = <<MeasurementEq(X)>> =>
                      res.r.val.exprs = IF X = table_name THEN <<>>
                                        ELSE <<LitBool(FALSE)>>
            /\ ( /\ table_name = "h2o"
                 /\ predicate.exprs =
                       <<Bin("and", Bin("or", MeasurementEq("foo"), MeasurementEq("h2o")),
                             TimeGt5)>> )
               => res.r.val.exprs = <<TimeGt5>>
            /\ \A i \in 1..Len(res.r.val.exprs) : res.r.val.exprs[i] # LitBool(TRUE)

\* a state for C29: the predicate of the third test of run_test has been
\* normalised for h2o and only time > 5 is left
C29_Witness ==
    /\ res.op = "normalize_predicate" /\ res.r.err = "Ok"
    /\ res.args[1] = "h2o"
    /\ res.args[3].exprs =
          <<Bin("and", Bin("or", MeasurementEq("foo"), MeasurementEq("h2o")), TimeGt5)>>
    /\ res.r.val.exprs = <<TimeGt5>>

\* the fields a comparison of _field, or an OR or AND of such, selects
RECURSIVE FieldsSelected(_, _)
FieldsSelected(e, fields) ==
    IF e.op = "=" THEN {e.r.v} \cap fields
    ELSE IF e.op = "!=" THEN fields \ {e.r.v}
    ELSE IF e.op = "or" THEN FieldsSelected(e.l, fields) \cup FieldsSelected(e.r, fields)
    ELSE FieldsSelected(e.l, fields) \cap FieldsSelected(e.r, fields)

\* whether e is a comparison of _field with a literal, or an OR or AND of such
RECURSIVE OnFieldOnly(_)
OnFieldOnly(e) ==
    /\ e.k = "bin"
    /\ IF e.op \in {"or", "and"} THEN OnFieldOnly(e.l) /\ OnFieldOnly(e.r)
       ELSE /\ e.op \in {"=", "!="}
            /\ e.l = Col(FIELD_COLUMN_NAME)
            /\ e.r.k = "lit"

\* C30: a predicate all of whose expressions are comparisons of _field, or
\* ORs and ANDs of them, is normalised to one with no expression, whose
\* field_columns are set to the fields of the schema that every expression
\* selects: _field = f selects f if the schema has it and nothing otherwise,
\* _field != f the other fields, an OR the union.
C30_FieldProjection ==
    ( /\ res.op = "normalize_predicate"
      /\ res.args[3].exprs # <<>>
      /\ \A i \in 1..Len(res.args[3].exprs) : OnFieldOnly(res.args[3].exprs[i]) )
    => /\ res.r.err = "Ok"
       /\ res.r.val.exprs = <<>>
       /\ res.r.val.field_columns =
             <<{f \in res.args[2].fields :
                  \A i \in 1..Len(res.args[3].exprs) :
                     f \in FieldsSelected(res.args[3].exprs[i], res.args[2].fields)}>>

\* a state for C30: _field = f1 and _field != f2, given as two expressions,
\* have selected f1 alone of the fields f1 and f2
C30_Witness ==
    /\ res.op = "normalize_predicate" /\ res.r.err = "Ok"
    /\ res.args[2].fields = {"f1", "f2"}
    /\ res.args[3].exprs = <<FieldEq("f1"), FieldNotEq("f2")>>
    /\ res.r.val.exprs = <<>>
    /\ res.r.val.field_columns = <<{"f1"}>>

\* whether the expression e of a predicate refers to _field and to a column
\* from others as well
MixesField(e, others) ==
    /\ FIELD_COLUMN_NAME \in ColumnReferences(e)
    /\ ColumnReferences(e) \cap others # {}

\* the columns of the expressions the callers build
AllColumns == UNION {ColumnReferences(e) : e \in SimpleExprs}

\* the tables table_predicates normalises the inner predicate for
TablesNormalized(self, table_info) ==
    {n \in NamesOf(TableNamesIter(self, table_info)) : table_info.table_schema[n] # <<>>}

\* C31 as stated: a predicate with an expression that refers to _field and to
\* any other column is not normalised: normalize_predicate returns an error.
C31_AnyOtherColumnRefused ==
    ( /\ res.op = "normalize_predicate"
      /\ \E i \in 1..Len(res.args[3].exprs) :
            MixesField(res.args[3].exprs[i], AllColumns \ {FIELD_COLUMN_NAME}) )
    => res.r.err # "Ok"

\* C31: a predicate with an expression that refers to _field and to a column
\* of the table (a column that is not _measurement, and the expression not
\* referring to _value) is refused with the error Unsupported _field
\* predicate and no predicate is returned; normalize_predicate returns no
\* other error; and table_predicates returns that error, and no pair, when
\* the normalisation fails for one of the tables it goes through.
C31_MixedFieldRefused ==
    /\ res.op = "normalize_predicate" =>
          /\ ( \E i \in 1..Len(res.args[3].exprs) :
                  /\ MixesField(res.args[3].exprs[i],
                                AllColumns \ { FIELD_COLUMN_NAME, MEASUREMENT_COLUMN_NAME,
                                               VALUE_COLUMN_NAME })
                  /\ VALUE_COLUMN_NAME \notin ColumnReferences(res.args[3].exprs[i]) )
             => res.r.err = "Plan"
          /\ res.r.err # "Ok" =>
                /\ res.r.err = "Plan"
                /\ res.r.val[1] = "Unsupported _field predicate"
                /\ \E i \in 1..Len(res.args[3].exprs) :
                      /\ FIELD_COLUMN_NAME \in ColumnReferences(res.args[3].exprs[i])
                      /\ res.r.val[2] = RewriteMeasurementReferences(res.args[1],
                                                                     res.args[3].exprs[i])
    /\ res.op = "table_predicates" =>
          ( ( \E n \in TablesNormalized(res.args[1], res.args[2]) :
                 NormalizePredicate(n, res.args[2].table_schema[n][1],
                                    res.args[1].inner).err # "Ok" )
            <=> ( /\ res.r.err = "Plan"
                  /\ res.r.val[1] = "Unsupported _field predicate" ) )

\* a state for C31: with no restriction and a database of two tables,
\* table_predicates has returned the error for t1 = .. OR _field = 'f2'
C31_Witness ==
    /\ res.op = "table_predicates"
    /\ res.args[1].table_names = <<>>
    /\ Len(res.args[2].table_names) = 2
    /\ res.args[1].inner.exprs =
          <<Bin("or", Bin("=", Col("t1"), Lit("Utf8", "my_awesome_tag_value")),
                FieldEq("f2"))>>
    /\ res.r.err = "Plan"
    /\ res.r.val[1] = "Unsupported _field predicate"

-----------------------------------------------------------------------------
(* iox_query: the planner of the InfluxDB Storage gRPC requests. A chunk is *)
(* what the planner asks of it: its id and order, whether it has delete     *)
(* predicates, what apply_predicate_to_metadata answers ("Err" when it      *)
(* fails), and what column_names and column_values answer (an Option).      *)

\* the chunks in the order the planner looks at them: by Reverse(order), the
\* sort being stable
CheapChunkFirst(chunks) ==
    LET before(i) == {j \in 1..Len(chunks) :
                        \/ chunks[j].order > chunks[i].order
                        \/ chunks[j].order = chunks[i].order /\ j < i}
    IN  [k \in 1..Len(chunks) |->
            chunks[CHOOSE i \in 1..Len(chunks) : Cardinality(before(i)) = k - 1]]

\* a closure of table_names that asks the metadata first, whatever the chunk
TableNamesClosureMetadataFirst(chunks, chunks_full) ==
    IF \E i \in 1..Len(chunks) :
          /\ chunks[i].apply_predicate_to_metadata = "AtLeastOneNonNullField"
          /\ \A j \in 1..(i - 1) : chunks[j].apply_predicate_to_metadata # "Err"
    THEN Ok([direct |-> TRUE, chunks_full |-> <<>>])
    ELSE IF \E i \in 1..Len(chunks) : chunks[i].apply_predicate_to_metadata = "Err"
    THEN Err("CheckingChunkPredicate",
             <<chunks[First({i \in 1..Len(chunks) :
                              chunks[i].apply_predicate_to_metadata = "Err"})].id>>)
    ELSE Ok([direct |-> FALSE,
             chunks_full |-> SelectSeq(chunks, LAMBDA c :
                                 c.apply_predicate_to_metadata = "Unknown")])

\* the closure of table_names over the chunks of one table, cheap chunks
\* first: a chunk with delete predicates needs the full plan; of the others,
\* the first whose metadata matches answers for the table, those whose
\* metadata cannot tell need the full plan, and those with no match are left
RECURSIVE TableNamesClosure(_, _)
TableNamesClosure(chunks, chunks_full) ==
    IF chunks = <<>> THEN Ok([direct |-> FALSE, chunks_full |-> chunks_full])
    ELSE LET chunk == Head(chunks)
             pred_result == chunk.apply_predicate_to_metadata
         IN  IF chunk.has_delete_predicates
             THEN TableNamesClosure(Tail(chunks), Append(chunks_full, chunk))
             ELSE IF pred_result = "Err"
             THEN Err("CheckingChunkPredicate", <<chunk.id>>)
             ELSE IF pred_result = "AtLeastOneNonNullField"
             THEN Ok([direct |-> TRUE, chunks_full |-> <<>>])
             ELSE IF pred_result = "Unknown"
             THEN TableNamesClosure(Tail(chunks), Append(chunks_full, chunk))
             ELSE TableNamesClosure(Tail(chunks), chunks_full)

\* a closure of tag_keys that asks column_names of every chunk whose metadata
\* has a match
TagKeysClosureNoDeletes(chunks, chunks_full, known_columns) ==
    IF \E i \in 1..Len(chunks) : chunks[i].apply_predicate_to_metadata = "Err"
    THEN Err("CheckingChunkPredicate",
             <<chunks[First({i \in 1..Len(chunks) :
                              chunks[i].apply_predicate_to_metadata = "Err"})].id>>)
    ELSE Ok([ chunks_full |-> SelectSeq(chunks, LAMBDA c :
                                 /\ c.apply_predicate_to_metadata # "Zero"
                                 /\ c.column_names = <<>>),
              known |-> UNION {chunks[i].column_names[1] :
                                 i \in {j \in 1..Len(chunks) :
                                     /\ chunks[j].apply_predicate_to_metadata # "Zero"
                                     /\ chunks[j].column_names # <<>>}} ])

\* the closure of tag_keys over the chunks of one table: a chunk whose
\* metadata has no match is left; of the others, one with delete predicates
\* needs the full plan, and so does one whose column_names cannot tell
RECURSIVE TagKeysClosure(_, _, _)
TagKeysClosure(chunks, chunks_full, known_columns) ==
    IF chunks = <<>>
    THEN Ok([chunks_full |-> chunks_full, known |-> known_columns])
    ELSE LET chunk == Head(chunks)
             pred_result == chunk.apply_predicate_to_metadata
         IN  IF pred_result = "Err"
             THEN Err("CheckingChunkPredicate", <<chunk.id>>)
             ELSE IF pred_result = "Zero"
             THEN TagKeysClosure(Tail(chunks), chunks_full, known_columns)
             ELSE IF chunk.has_delete_predicates \/ chunk.column_names = <<>>
             THEN TagKeysClosure(Tail(chunks), Append(chunks_full, chunk), known_columns)
             ELSE TagKeysClosure(Tail(chunks), chunks_full,
                                 known_columns \cup chunk.column_names[1])

\* the closure of tag_values: as for tag_keys, but a chunk without the column
\* tag_name is left, and a column tag_name that is not a tag is an error
RECURSIVE TagValuesClosure(_, _, _, _)
TagValuesClosure(tag_name, chunks, chunks_full, known_values) ==
    IF chunks = <<>>
    THEN Ok([chunks_full |-> chunks_full, known |-> known_values])
    ELSE LET chunk == Head(chunks)
             pred_result == chunk.apply_predicate_to_metadata
         IN  IF pred_result = "Err"
             THEN Err("CheckingChunkPredicate", <<chunk.id>>)
             ELSE IF pred_result = "Zero"
             THEN TagValuesClosure(tag_name, Tail(chunks), chunks_full, known_values)
             ELSE IF tag_name \notin chunk.schema.tags \cup chunk.schema.fields
             THEN TagValuesClosure(tag_name, Tail(chunks), chunks_full, known_values)
             ELSE IF tag_name \notin chunk.schema.tags
             THEN Err("InvalidTagColumn", <<tag_name>>)
             ELSE IF chunk.has_delete_predicates \/ chunk.column_values = <<>>
             THEN TagValuesClosure(tag_name, Tail(chunks),
                                   Append(chunks_full, chunk), known_values)
             ELSE TagValuesClosure(tag_name, Tail(chunks), chunks_full,
                                   known_values \cup chunk.column_values[1])

\* prune_chunks_metadata: the chunks whose metadata does not rule them out
RECURSIVE PruneChunksMetadata(_, _)
PruneChunksMetadata(chunks, filtered) ==
    IF chunks = <<>> THEN Ok(filtered)
    ELSE LET chunk == Head(chunks)
             pred_result == chunk.apply_predicate_to_metadata
         IN  IF pred_result = "Err"
             THEN Err("CheckingChunkPredicate", <<chunk.id>>)
             ELSE PruneChunksMetadata(Tail(chunks),
                      IF pred_result # "Zero" THEN Append(filtered, chunk) ELSE filtered)

\* Predicate::is_empty: the predicate restricts nothing
PredicateIsEmpty(predicate) ==
    /\ predicate.exprs = <<>>
    /\ predicate.value_expr = <<>>
    /\ predicate.field_columns = <<>>

\* StringSetPlanBuilder::new and FieldListPlan::new: the strings known at plan
\* time and the plans to run
NewBuilder == [strings |-> {}, plans |-> <<>>]

\* the ids of chunks
ChunkIds(chunks) == [i \in 1..Len(chunks) |-> chunks[i].id]

\* a plan over the chunks of a table, built by ScanPlanBuilder from the schema
\* the database has of the table
ScanPlan(plan, table_name, schema, chunks) ==
    [ plan       |-> plan,
      table_name |-> table_name,
      schema     |-> schema,
      chunks     |-> chunks ]

\* a lookup that goes on without the schema
SchemaOrNone(table_info, table_name) == Ok(table_info.table_schema[table_name])

\* the lookup of the schema of a table of which chunks are to be scanned: a
\* table the database has no schema of any more was removed
SchemaOrTableRemoved(table_info, table_name) ==
    IF table_info.table_schema[table_name] = <<>>
    THEN Err("TableRemoved", <<table_name>>)
    ELSE Ok(table_info.table_schema[table_name])

\* the loop over the table predicates before any chunk is asked for: what
\* tag_keys and field_columns answer from the schema for an empty predicate,
\* and the tables tag_values leaves because they have no column tag_name
RECURSIVE BeforeChunks(_, _, _, _, _, _)
BeforeChunks(op, tag_name, table_info, table_predicates, need_chunks, builder) ==
    IF table_predicates = <<>>
    THEN Ok([table_predicates |-> need_chunks, builder |-> builder])
    ELSE LET table_name == Head(table_predicates)[1]
             predicate == Head(table_predicates)[2]
             schema == table_info.table_schema[table_name]
             rest == Tail(table_predicates)
             needed == Append(need_chunks, Head(table_predicates))
         IN  IF op = "table_names"
             THEN BeforeChunks(op, tag_name, table_info, rest, needed, builder)
             ELSE IF op = "tag_values"
             THEN IF schema = <<>> THEN Err("TableRemoved", <<table_name>>)
                  ELSE IF tag_name \notin schema[1].tags \cup schema[1].fields \cup {"time"}
                  THEN BeforeChunks(op, tag_name, table_info, rest, need_chunks, builder)
                  ELSE BeforeChunks(op, tag_name, table_info, rest, needed, builder)
             ELSE IF ~PredicateIsEmpty(predicate)
             THEN BeforeChunks(op, tag_name, table_info, rest, needed, builder)
             ELSE IF schema = <<>> THEN Err("TableRemoved", <<table_name>>)
             ELSE BeforeChunks(op, tag_name, table_info, rest, need_chunks,
                      [builder EXCEPT !.strings =
                          @ \cup (IF op = "tag_keys" THEN schema[1].tags
                                                     ELSE schema[1].fields)])

\* what the stream of a request makes of the chunks of one table: None when
\* the table contributes nothing, else what is known of the table and the
\* chunks that need the full plan
TableOfStream(op, tag_name, table_name, chunks) ==
    IF op = "table_names"
    THEN LET c == TableNamesClosure(CheapChunkFirst(chunks), <<>>)
         IN  IF c.err # "Ok" THEN c
             ELSE IF ~c.val.direct /\ c.val.chunks_full = <<>> THEN Ok(<<>>)
             ELSE Ok(<<[table_name |-> table_name, direct |-> c.val.direct,
                        known |-> {}, chunks_full |-> ChunkIds(c.val.chunks_full)]>>)
    ELSE LET c == IF op = "tag_keys"
                  THEN TagKeysClosure(CheapChunkFirst(chunks), <<>>, {})
                  ELSE TagValuesClosure(tag_name, CheapChunkFirst(chunks), <<>>, {})
         IN  IF c.err # "Ok" THEN c
             ELSE Ok(<<[table_name |-> table_name, direct |-> FALSE,
                        known |-> c.val.known,
                        chunks_full |-> ChunkIds(c.val.chunks_full)]>>)

\* create_plans for one table: the chunks are pruned by their metadata, a
\* table with no chunk left has no plan, and the plan of any other table is
\* built from the schema the database has of it now
CreatePlans(table_info, table_name, chunks) ==
    LET pruned == PruneChunksMetadata(chunks, <<>>)
        schema == SchemaOrTableRemoved(table_info, table_name)
    IN  IF pruned.err # "Ok" THEN pruned
        ELSE IF pruned.val = <<>> THEN Ok(<<>>)
        ELSE IF schema.err # "Ok" THEN schema
        ELSE Ok(<<ScanPlan("field_columns_plan", table_name, schema.val,
                           ChunkIds(pruned.val))>>)

\* the loop that feeds the builder when the stream has ended
RECURSIVE FeedBuilder(_, _, _, _)
FeedBuilder(op, table_info, tables, builder) ==
    IF tables = <<>> THEN Ok(builder)
    ELSE LET table == Head(tables)
             schema == SchemaOrTableRemoved(table_info, table.table_name)
             known == [builder EXCEPT !.strings = @ \cup table.known]
         IN  IF table.direct
             THEN FeedBuilder(op, table_info, Tail(tables),
                      [builder EXCEPT !.strings = @ \cup {table.table_name}])
             ELSE IF table.chunks_full = <<>>
             THEN FeedBuilder(op, table_info, Tail(tables), known)
             ELSE IF schema.err # "Ok" THEN schema
             ELSE IF op = "tag_keys" /\ schema.val # <<>> /\ schema.val[1].tags = {}
             THEN FeedBuilder(op, table_info, Tail(tables), known)
             ELSE FeedBuilder(op, table_info, Tail(tables),
                      [known EXCEPT !.plans =
                          Append(@, ScanPlan(IF op = "table_names" THEN "table_name_plan"
                                             ELSE IF op = "tag_keys" THEN "tag_keys_plan"
                                             ELSE "tag_values_plan",
                                             table.table_name, schema.val,
                                             table.chunks_full))])

\* chunks of a table: at most MaxChunks of them
MaxChunks == 2

\* the chunks have the tag t1 and the field f1 as those of the tests of
\* influxrpc.rs, and each but the first a tag of its own; column_names and
\* column_values answer or not where they are asked, in tag_keys and
\* tag_values, and what they answer tells the chunks apart
ChunksOfLen(op, n) ==
    { [i \in 1..n |->
          [ id |-> i, order |-> i,
            has_delete_predicates |-> d[i],
            apply_predicate_to_metadata |-> m[i],
            column_names  |-> IF a[i] THEN <<{"t" \o ToString(i)}>> ELSE <<>>,
            column_values |-> IF a[i] THEN <<{"v" \o ToString(i)}>> ELSE <<>>,
            schema |-> [tags |-> {"t1", "t" \o ToString(i)}, fields |-> {"f1"}] ]] :
        d \in [1..n -> BOOLEAN],
        m \in [1..n -> {"Zero", "Unknown", "AtLeastOneNonNullField", "Err"}],
        a \in [1..n -> IF op \in {"tag_keys", "tag_values"} THEN BOOLEAN ELSE {FALSE}] }

\* how many chunks database.chunks() answers for a table at most: of the
\* tables other than h2o there is one chunk at most
MaxChunksOfTable(table_name) == IF table_name = "h2o" THEN MaxChunks ELSE 1

PlannerOps == {"table_names", "tag_keys", "tag_values", "field_columns"}

TagNames == {"t1", "t2", "f1"}

\* the requests: of all tables or of some, with an empty predicate, with one
\* on the time, and with one that has no normal form
PlannerPredicates ==
    { InfluxRpcPredicateNew(table_names, PredicateNew(exprs)) :
        table_names \in {<<>>, <<{"foo", "h2o"}>>}, exprs \in {<<>>, <<TimeGt5>>} }
        \cup {InfluxRpcPredicateNew(<<>>, PredicateNew(<<Bin("or", FieldEq("f1"), TimeGt5)>>))}

InitPlanner ==
    /\ live = EmptyCollections
    /\ holder = NoTask
    /\ waitq = <<>>
    /\ handle = [t \in Tasks |-> NoHandle]
    /\ res = Result("new", NoTask, <<>>, Ok(<<>>))
    /\ now = 0
    /\ hist = NoHistory
    /\ cache = NoEntries
    /\ getting = NoGet
    /\ planner = NoPlanning

\* a request arrives: the table predicates are made and the loop before the
\* stream runs
PlannerBegin(op, tag_name, rpc_predicate, table_info) ==
    /\ planner = NoPlanning
    /\ LET table_predicates == TablePredicates(rpc_predicate, table_info)
           before == BeforeChunks(op, tag_name, table_info, table_predicates.val,
                                  <<>>, NewBuilder)
       IN  IF table_predicates.err # "Ok"
           THEN /\ res' = Result(op, NoTask, <<tag_name, rpc_predicate, table_info>>,
                                 Err("CreatingPredicates", table_predicates.val))
                /\ UNCHANGED planner
           ELSE IF before.err # "Ok"
           THEN /\ res' = Result(op, NoTask, <<tag_name, rpc_predicate, table_info>>, before)
                /\ UNCHANGED planner
           ELSE /\ res' = Result(op, NoTask, <<tag_name, rpc_predicate, table_info>>,
                                 Err("Pending", <<>>))
                /\ planner' = <<[ op |-> op, tag_name |-> tag_name,
                                  database |-> table_info,
                                  table_predicates |->
                                      [i \in 1..Len(before.val.table_predicates) |->
                                          before.val.table_predicates[i][1]],
                                  tables |-> <<>>,
                                  builder |-> before.val.builder ]>>
    /\ UNCHANGED <<live, holder, waitq, handle, now, hist, cache, getting>>

\* the stream yields the next table: database.chunks() answers and the
\* closure of the request goes through the chunks
PlannerStream(op, chunks) ==
    /\ planner # NoPlanning
    /\ planner[1].op = op
    /\ planner[1].table_predicates # <<>>
    /\ LET p == planner[1]
           table_name == Head(p.table_predicates)
           out == IF p.op = "field_columns"
                  THEN CreatePlans(p.database, table_name, chunks)
                  ELSE TableOfStream(p.op, p.tag_name, table_name, chunks)
       IN  /\ Len(chunks) <= MaxChunksOfTable(table_name)
           /\ res' = Result(IF p.op = "field_columns" THEN "create_plans" ELSE "stream",
                            NoTask, <<p.op, p.tag_name, table_name, chunks, p.database>>, out)
           /\ planner' = IF out.err # "Ok" THEN NoPlanning
                         ELSE <<[p EXCEPT
                                   !.table_predicates = Tail(@),
                                   !.tables = IF p.op = "field_columns" THEN @
                                              ELSE @ \o out.val,
                                   !.builder.plans = IF p.op = "field_columns"
                                                     THEN @ \o out.val ELSE @]>>
    /\ UNCHANGED <<live, holder, waitq, handle, now, hist, cache, getting>>

\* database.chunks() fails for the next table
PlannerStreamFails ==
    /\ planner # NoPlanning
    /\ planner[1].table_predicates # <<>>
    /\ res' = Result("stream", NoTask,
                     <<planner[1].op, planner[1].tag_name, Head(planner[1].table_predicates),
                       <<>>, planner[1].database>>,
                     Err("GettingChunks", <<Head(planner[1].table_predicates)>>))
    /\ planner' = NoPlanning
    /\ UNCHANGED <<live, holder, waitq, handle, now, hist, cache, getting>>

\* the stream has ended: the builder is fed and the request returns
PlannerBuild ==
    /\ planner # NoPlanning
    /\ planner[1].table_predicates = <<>>
    /\ res' = Result(planner[1].op, NoTask, <<planner[1].tables, planner[1].database>>,
                     FeedBuilder(planner[1].op, planner[1].database, planner[1].tables,
                                 planner[1].builder))
    /\ planner' = NoPlanning
    /\ UNCHANGED <<live, holder, waitq, handle, now, hist, cache, getting>>

\* while the request is planned, a table is removed from the database
PlannerTableRemoved(table_name) ==
    /\ planner # NoPlanning
    /\ planner[1].database.table_schema[table_name] # <<>>
    /\ planner' = <<[planner[1] EXCEPT
                       !.database.table_schema[table_name] = <<>>,
                       !.database.table_names = SelectSeq(@, LAMBDA n : n # table_name)]>>
    /\ res' = Result("remove_table", NoTask, <<table_name>>, Ok(<<>>))
    /\ UNCHANGED <<live, holder, waitq, handle, now, hist, cache, getting>>

NextPlanner ==
    \/ \E op \in PlannerOps \ {"tag_values"},
          rpc_predicate \in PlannerPredicates, table_info \in Databases :
          PlannerBegin(op, "", rpc_predicate, table_info)
    \/ \E tag_name \in TagNames,
          rpc_predicate \in PlannerPredicates, table_info \in Databases :
          PlannerBegin("tag_values", tag_name, rpc_predicate, table_info)
    \/ \E op \in PlannerOps, n \in 0..MaxChunks : \E chunks \in ChunksOfLen(op, n) :
          PlannerStream(op, chunks)
    \/ PlannerStreamFails
    \/ PlannerBuild
    \/ \E table_name \in {"cpu", "h2o"} : PlannerTableRemoved(table_name)

SpecPlanner == InitPlanner /\ [][NextPlanner]_vars

\* the closure of a request went through the chunks of a table without error
StreamedTable(op) ==
    /\ res.op = "stream"
    /\ res.args[1] = op
    /\ res.r.err = "Ok"

\* the ids of the chunks of a list that satisfy a condition
IdsWhere(chunks, Cond(_)) == {chunks[i].id : i \in {j \in 1..Len(chunks) : Cond(chunks[j])}}

\* the request returned what the builder was fed with
Built(op) ==
    /\ res.op = op
    /\ res.r.err = "Ok"

\* C32: in table_names, when no evaluation of the metadata fails, a table of
\* which a chunk without delete predicates has at least one non-null field
\* is named directly and no plan is built for it; any other table of which a
\* chunk has delete predicates or metadata that cannot tell gets one plan
\* that checks for non-null fields over exactly those chunks; and a table of
\* which all chunks have no match, or that has no chunk, contributes nothing.
C32_TableNamesFastPath ==
    /\ StreamedTable("table_names") =>
          LET chunks == res.args[4]
              answered == IdsWhere(chunks, LAMBDA c :
                              /\ ~c.has_delete_predicates
                              /\ c.apply_predicate_to_metadata = "AtLeastOneNonNullField")
              scanned == IdsWhere(chunks, LAMBDA c :
                              \/ c.has_delete_predicates
                              \/ c.apply_predicate_to_metadata = "Unknown")
          IN  IF answered # {}
              THEN /\ Len(res.r.val) = 1
                   /\ res.r.val[1].table_name = res.args[3]
                   /\ res.r.val[1].direct
                   /\ res.r.val[1].chunks_full = <<>>
              ELSE IF scanned # {}
              THEN /\ Len(res.r.val) = 1
                   /\ res.r.val[1].table_name = res.args[3]
                   /\ ~res.r.val[1].direct
                   /\ Len(res.r.val[1].chunks_full) = Cardinality(scanned)
                   /\ Range(res.r.val[1].chunks_full) = scanned
              ELSE res.r.val = <<>>
    /\ Built("table_names") =>
          LET tables == res.args[1]
              planned == SelectSeq(tables, LAMBDA t : ~t.direct)
          IN  /\ res.r.val.strings = {tables[i].table_name :
                                         i \in {j \in 1..Len(tables) : tables[j].direct}}
              /\ Len(res.r.val.plans) = Len(planned)
              /\ \A i \in 1..Len(planned) :
                    /\ res.r.val.plans[i].plan = "table_name_plan"
                    /\ res.r.val.plans[i].table_name = planned[i].table_name
                    /\ res.r.val.plans[i].chunks = planned[i].chunks_full

\* a table of which one chunk has delete predicates and metadata with a match
\* and the other has metadata that cannot tell: both are in the one plan
C32_Witness ==
    /\ Built("table_names")
    /\ \E i \in 1..Len(res.args[1]) : res.args[1][i].direct
    /\ \E i \in 1..Len(res.r.val.plans) : Len(res.r.val.plans[i].chunks) = 2

\* the chunks with delete predicates among those database.chunks() answered
Deleted(chunks) == IdsWhere(chunks, LAMBDA c : c.has_delete_predicates)

\* the closures that went through the chunks of a table for table_names,
\* tag_keys or tag_values
StreamedAny ==
    \/ StreamedTable("table_names")
    \/ StreamedTable("tag_keys")
    \/ StreamedTable("tag_values")

\* C33 as the specification states it: in table_names, tag_keys and
\* tag_values every chunk with delete predicates is among the chunks of the
\* full plan of its table.
C33_DeletedAlwaysScanned ==
    StreamedAny =>
        /\ Deleted(res.args[4]) # {} => Len(res.r.val) = 1
        /\ \A t \in 1..Len(res.r.val) : Deleted(res.args[4]) \subseteq Range(res.r.val[t].chunks_full)

\* C33: in table_names, tag_keys and tag_values a chunk with delete predicates
\* is never answered from its metadata: the table is named directly only for
\* a chunk without delete predicates, and the columns and values known at
\* plan time are those of chunks without delete predicates. The chunk is among
\* the chunks of the full plan of its table unless the table is named
\* directly (table_names), the metadata of the chunk has no match (tag_keys,
\* tag_values) or the chunk has no column of the name asked for (tag_values).
C33_DeletedNeverFromMetadata ==
    /\ StreamedTable("table_names") =>
          \A t \in 1..Len(res.r.val) :
             IF res.r.val[t].direct
             THEN IdsWhere(res.args[4], LAMBDA c :
                      /\ ~c.has_delete_predicates
                      /\ c.apply_predicate_to_metadata = "AtLeastOneNonNullField") # {}
             ELSE Deleted(res.args[4]) \subseteq Range(res.r.val[t].chunks_full)
    /\ StreamedTable("tag_keys") =>
          /\ Len(res.r.val) = 1
          /\ IdsWhere(res.args[4], LAMBDA c :
                 /\ c.has_delete_predicates
                 /\ c.apply_predicate_to_metadata # "Zero")
                \subseteq Range(res.r.val[1].chunks_full)
          /\ res.r.val[1].known \subseteq
                UNION {c.column_names[1] :
                         c \in {d \in Range(res.args[4]) :
                                  ~d.has_delete_predicates /\ d.column_names # <<>>}}
    /\ StreamedTable("tag_values") =>
          /\ Len(res.r.val) = 1
          /\ IdsWhere(res.args[4], LAMBDA c :
                 /\ c.has_delete_predicates
                 /\ c.apply_predicate_to_metadata # "Zero"
                 /\ res.args[2] \in c.schema.tags)
                \subseteq Range(res.r.val[1].chunks_full)
          /\ res.r.val[1].known \subseteq
                UNION {c.column_values[1] :
                         c \in {d \in Range(res.args[4]) :
                                  ~d.has_delete_predicates /\ d.column_values # <<>>}}

\* tag_keys went through a chunk with delete predicates of which column_names
\* would have answered, and through one without of which it did
C33_Witness ==
    /\ StreamedTable("tag_keys")
    /\ Len(res.r.val) = 1
    /\ res.r.val[1].known # {}
    /\ \E i \in 1..Len(res.args[4]) :
          /\ res.args[4][i].has_delete_predicates
          /\ res.args[4][i].column_names # <<>>
          /\ res.args[4][i].id \in Range(res.r.val[1].chunks_full)

\* the builder loop of table_names, tag_keys or tag_values has run
FedBuilder ==
    /\ res.op \in {"table_names", "tag_keys", "tag_values"}
    /\ Len(res.args) = 2

\* C36: a table of which chunks are left to scan but of which the database
\* has no schema any more when its plan is to be made, makes the request fail
\* with TableRemoved and the name of the table, in the builder loops of
\* table_names, tag_keys and tag_values and in create_plans; no plan is
\* returned then, and no plan is ever made without the schema of its table.
C36_TableRemoved ==
    /\ FedBuilder =>
          LET tables == res.args[1]
              removed == {i \in 1..Len(tables) :
                            /\ ~tables[i].direct
                            /\ tables[i].chunks_full # <<>>
                            /\ res.args[2].table_schema[tables[i].table_name] = <<>>}
          IN  IF removed # {}
              THEN res.r = Err("TableRemoved", <<tables[First(removed)].table_name>>)
              ELSE /\ res.r.err = "Ok"
                   /\ \A i \in 1..Len(res.r.val.plans) :
                         res.r.val.plans[i].schema =
                            res.args[2].table_schema[res.r.val.plans[i].table_name]
    /\ (res.op = "create_plans" /\ res.r.err # "CheckingChunkPredicate") =>
          IF \A i \in 1..Len(res.args[4]) :
                res.args[4][i].apply_predicate_to_metadata = "Zero"
          THEN res.r = Ok(<<>>)
          ELSE IF res.args[5].table_schema[res.args[3]] = <<>>
          THEN res.r = Err("TableRemoved", <<res.args[3]>>)
          ELSE /\ res.r.err = "Ok"
               /\ Len(res.r.val) = 1
               /\ res.r.val[1].table_name = res.args[3]
               /\ res.r.val[1].schema = res.args[5].table_schema[res.args[3]]

\* the table h2o, of which the database had a schema when the request came,
\* has chunks to scan and was removed before the builder loop looked it up
C36_Witness ==
    /\ FedBuilder
    /\ res.r = Err("TableRemoved", <<"h2o">>)
    /\ \E i \in 1..Len(res.args[1]) :
          /\ res.args[1][i].table_name = "h2o"
          /\ res.args[1][i].chunks_full # <<>>

-----------------------------------------------------------------------------
(* The plans of read_filter, read_group and read_window_aggregate for one    *)
(* table. A schema is the sequence of its columns, each a Tag, a Field or    *)
(* the Timestamp; a plan is the sequence of its nodes, the scan first; an    *)
(* expression of a node is the name it is output under and how it is made.   *)

TIME_COLUMN_NAME == "time"

ColumnsOfType(schema, type) ==
    LET cols == SelectSeq(schema, LAMBDA c : c.type = type)
    IN  [i \in 1..Len(cols) |-> cols[i].name]

\* Schema::tags_iter, fields_iter and time_iter, as names
TagsIter(schema) == ColumnsOfType(schema, "Tag")

FieldsIter(schema) == ColumnsOfType(schema, "Field")

TimeIter(schema) == ColumnsOfType(schema, "Timestamp")

\* Predicate::should_include_field: every field unless the predicate
\* restricts the fields
ShouldIncludeField(predicate, field_name) ==
    predicate.field_columns = <<>> \/ field_name \in predicate.field_columns[1]

\* an expression: a column, or something made of a column under a name
PlanExpr(name, make, of) == [name |-> name, make |-> make, of |-> of]

ColExpr(name) == PlanExpr(name, "col", name)

ColExprs(names) == [i \in 1..Len(names) |-> ColExpr(names[i])]

\* filtered_fields_iter: the fields of the schema the predicate includes; with
\* expressions on _value the field is output only where they hold
FilteredFieldsIter(schema, predicate) ==
    LET names == SelectSeq(FieldsIter(schema), LAMBDA f : ShouldIncludeField(predicate, f))
    IN  [i \in 1..Len(names) |->
            PlanExpr(names[i], IF predicate.value_expr = <<>> THEN "col" ELSE "case_when",
                     names[i])]

ExprNames(exprs) == [i \in 1..Len(exprs) |-> exprs[i].name]

\* ScanPlanBuilder::build: the scan of the chunks filtered by the predicate
ScanAndFilter(schema, predicate) ==
    <<[node |-> "TableScan", exprs |-> ColExprs(ExprNames(schema)), by |-> <<>>]>>

\* the node a plan ends in
LastNode(plan) == plan[Len(plan)]

\* LogicalPlanBuilder::sort, project and aggregate
PlanSort(plan, names) ==
    Append(plan, [node |-> "Sort", exprs |-> LastNode(plan).exprs, by |-> names])

PlanProject(plan, exprs) ==
    Append(plan, [node |-> "Projection", exprs |-> exprs, by |-> <<>>])

PlanAggregate(plan, group_exprs, agg_exprs) ==
    Append(plan, [node |-> "Aggregate", exprs |-> group_exprs \o agg_exprs,
                  by |-> ExprNames(group_exprs)])

\* LogicalPlanBuilder::schema: the names the last node outputs
PlanSchema(plan) == ExprNames(LastNode(plan).exprs)

\* a read_filter_plan that selects every field of the schema
ReadFilterPlanAllFields(table_name, schema, predicate) ==
    LET scan_and_filter == ScanAndFilter(schema, predicate)
        sorted == PlanSort(scan_and_filter, TagsIter(schema) \o TimeIter(schema))
    IN  Ok([ table_name |-> table_name,
             plan |-> PlanProject(sorted, ColExprs(TagsIter(schema))
                                     \o ColExprs(FieldsIter(schema))
                                     \o ColExprs(TimeIter(schema))),
             tag_columns |-> TagsIter(schema),
             field_columns |-> FieldsIter(schema) ])

ReadFilterPlan(table_name, schema, predicate) ==
    LET scan_and_filter == ScanAndFilter(schema, predicate)
        tags_and_timestamp == TagsIter(schema) \o TimeIter(schema)
        sorted == PlanSort(scan_and_filter, tags_and_timestamp)
        tags_fields_and_timestamps ==
            ColExprs(TagsIter(schema))
                \o FilteredFieldsIter(schema, predicate)
                \o ColExprs(TimeIter(schema))
    IN  Ok([ table_name |-> table_name,
             plan |-> PlanProject(sorted, tags_fields_and_timestamps),
             tag_columns |-> TagsIter(schema),
             field_columns |-> ExprNames(FilteredFieldsIter(schema, predicate)) ])

\* project_exprs_in_schema: the prefix, then the other columns of the schema
ProjectExprsInSchema(prefix, names) ==
    ColExprs(prefix \o SelectSeq(names, LAMBDA n : n \notin Range(prefix)))

\* a cast_aggregates that casts whatever the aggregate
CastAggregatesAlways(plan, agg, field_columns) ==
    PlanProject(plan,
        [i \in 1..Len(PlanSchema(plan)) |->
            IF PlanSchema(plan)[i] \in Range(field_columns)
            THEN PlanExpr(PlanSchema(plan)[i], "cast_int64", PlanSchema(plan)[i])
            ELSE ColExpr(PlanSchema(plan)[i])])

\* cast_aggregates: the counts of the fields are cast to Int64
CastAggregates(plan, agg, field_columns) ==
    IF agg # "Count" THEN plan
    ELSE PlanProject(plan,
            [i \in 1..Len(PlanSchema(plan)) |->
                IF PlanSchema(plan)[i] \in Range(field_columns)
                THEN PlanExpr(PlanSchema(plan)[i], "cast_int64", PlanSchema(plan)[i])
                ELSE ColExpr(PlanSchema(plan)[i])])

\* make_agg_expr: of the time the last is taken unless the first is asked for
MakeAggExpr(agg, field_expr) ==
    PlanExpr(field_expr.name,
             IF field_expr.name = TIME_COLUMN_NAME /\ agg # "Min" THEN "Max" ELSE agg,
             field_expr.of)

\* AggExprs::selector_aggregates: of each field its value and the time of it
SelectorAggregates(agg, schema, predicate) ==
    LET fields == FilteredFieldsIter(schema, predicate)
    IN  [ agg_exprs |->
              [i \in 1..(2 * Len(fields)) |->
                  IF i % 2 = 1
                  THEN PlanExpr(fields[(i + 1) \div 2].name, agg, fields[(i + 1) \div 2].of)
                  ELSE PlanExpr(TIME_COLUMN_NAME \o "_" \o fields[i \div 2].name,
                                agg \o "_time", fields[i \div 2].of)],
          field_columns |-> ExprNames(fields) ]

\* AggExprs::try_new_for_read_group and try_new_for_read_window_aggregate
AggExprsTryNew(for, agg, schema, predicate) ==
    LET fields == FilteredFieldsIter(schema, predicate)
        aggregated == [i \in 1..Len(fields) |-> MakeAggExpr(agg, fields[i])]
        times == [i \in 1..Len(TimeIter(schema)) |->
                     MakeAggExpr(agg, ColExpr(TimeIter(schema)[i]))]
    IN  IF agg = "None" THEN Err("InternalUnexpectedNoneAggregate", <<>>)
        ELSE IF agg \in {"First", "Last", "Min", "Max"}
        THEN Ok(SelectorAggregates(agg, schema, predicate))
        ELSE Ok([ agg_exprs |-> IF for = "read_group" THEN aggregated \o times
                                                      ELSE aggregated,
                  field_columns |-> ExprNames(fields) ])

ReadGroupPlan(table_name, schema, predicate, agg) ==
    LET scan_and_filter == ScanAndFilter(schema, predicate)
        tag_columns == TagsIter(schema)
        aggs == AggExprsTryNew("read_group", agg, schema, predicate)
        aggregated == PlanAggregate(scan_and_filter, ColExprs(tag_columns),
                                    aggs.val.agg_exprs)
        reordered ==
            IF tag_columns # <<>>
            THEN PlanSort(PlanProject(aggregated,
                              ProjectExprsInSchema(tag_columns, PlanSchema(aggregated))),
                          tag_columns)
            ELSE aggregated
    IN  IF aggs.err # "Ok" THEN aggs
        ELSE Ok([ table_name |-> table_name,
                  plan |-> CastAggregates(reordered, agg, aggs.val.field_columns),
                  tag_columns |-> tag_columns,
                  field_columns |-> aggs.val.field_columns ])

ReadWindowAggregatePlan(table_name, schema, predicate, agg) ==
    LET scan_and_filter == ScanAndFilter(schema, predicate)
        window_bound == PlanExpr(TIME_COLUMN_NAME, "window_bound", TIME_COLUMN_NAME)
        group_exprs == ColExprs(TagsIter(schema)) \o <<window_bound>>
        aggs == AggExprsTryNew("read_window_aggregate", agg, schema, predicate)
        sorted == PlanSort(PlanAggregate(scan_and_filter, group_exprs, aggs.val.agg_exprs),
                           ExprNames(group_exprs))
    IN  IF aggs.err # "Ok" THEN aggs
        ELSE Ok([ table_name |-> table_name,
                  plan |-> CastAggregates(sorted, agg, aggs.val.field_columns),
                  tag_columns |-> TagsIter(schema),
                  field_columns |-> aggs.val.field_columns ])

\* the closure read_group gives to create_plans
ReadGroupClosure(table_name, schema, predicate, agg) ==
    IF agg = "None" THEN ReadFilterPlan(table_name, schema, predicate)
    ELSE ReadGroupPlan(table_name, schema, predicate, agg)

Aggregates == {"None", "Sum", "Count", "Mean", "First", "Last", "Min", "Max"}

Column(name, type) == [name |-> name, type |-> type]

\* schemas: the one with the tags a and b and the field v, others with the
\* columns in another order, without tags and without fields
PlanSchemas ==
    { <<Column("a", "Tag"), Column("b", "Tag"), Column("v", "Field"),
        Column("time", "Timestamp")>>,
      <<Column("v", "Field"), Column("b", "Tag"), Column("time", "Timestamp"),
        Column("a", "Tag"), Column("w", "Field")>>,
      <<Column("b", "Tag"), Column("a", "Tag"), Column("w", "Field"),
        Column("v", "Field"), Column("time", "Timestamp")>>,
      <<Column("v", "Field"), Column("time", "Timestamp")>>,
      <<Column("a", "Tag"), Column("time", "Timestamp")>> }

\* predicates after normalize_predicate: with or without a restriction of the
\* fields and an expression on _value
PlanPredicates ==
    { [PredicateNew(<<>>) EXCEPT !.field_columns = field_columns,
                                 !.value_expr = value_expr] :
        field_columns \in {<<>>, <<{}>>, <<{"v"}>>, <<{"w"}>>, <<{"v", "w"}>>},
        value_expr \in {<<>>, <<Bin(">", Col(VALUE_COLUMN_NAME), Lit("Float64", "1.77"))>>} }

InitPlans ==
    /\ live = EmptyCollections
    /\ holder = NoTask
    /\ waitq = <<>>
    /\ handle = [t \in Tasks |-> NoHandle]
    /\ \E schema \in PlanSchemas, predicate \in PlanPredicates :
          res = Result("table_schema", NoTask, <<schema, predicate>>, Ok(<<>>))
    /\ now = 0
    /\ hist = NoHistory
    /\ cache = NoEntries
    /\ getting = NoGet
    /\ planner = NoPlanning

\* the closure of read_filter makes the plan of the table
ReadFilter ==
    /\ res.op = "table_schema"
    /\ res' = Result("read_filter", NoTask, <<res.args[1], res.args[2], "None">>,
                     ReadFilterPlan("h2o", res.args[1], res.args[2]))
    /\ UNCHANGED <<live, holder, waitq, handle, now, hist, cache, getting, planner>>

ReadGroup(agg) ==
    /\ res.op = "table_schema"
    /\ res' = Result("read_group", NoTask, <<res.args[1], res.args[2], agg>>,
                     ReadGroupClosure("h2o", res.args[1], res.args[2], agg))
    /\ UNCHANGED <<live, holder, waitq, handle, now, hist, cache, getting, planner>>

ReadWindowAggregate(agg) ==
    /\ res.op = "table_schema"
    /\ res' = Result("read_window_aggregate", NoTask, <<res.args[1], res.args[2], agg>>,
                     ReadWindowAggregatePlan("h2o", res.args[1], res.args[2], agg))
    /\ UNCHANGED <<live, holder, waitq, handle, now, hist, cache, getting, planner>>

NextPlans ==
    \/ ReadFilter
    \/ \E agg \in Aggregates : ReadGroup(agg)
    \/ \E agg \in Aggregates : ReadWindowAggregate(agg)

SpecPlans == InitPlans /\ [][NextPlans]_vars

\* the names of the columns of a schema that are of one of some types and,
\* if fields, included by the predicate, in the order of the schema
NamesInSchemaOrder(schema, types, predicate) ==
    LET cols == SelectSeq(schema, LAMBDA c :
                    /\ c.type \in types
                    /\ c.type = "Field" =>
                          \/ predicate.field_columns = <<>>
                          \/ c.name \in predicate.field_columns[1])
    IN  [i \in 1..Len(cols) |-> cols[i].name]

\* the plan of a table returned for read_filter, or for read_group without
\* an aggregate
FilterPlanned ==
    \/ res.op = "read_filter"
    \/ res.op = "read_group" /\ res.args[3] = "None"

\* C34: the plan of read_filter for a table sorts the scan by the tags in the
\* order of the schema and then the time, and then projects the tags in the
\* order of the schema, the fields the predicate includes, and the time; for
\* the tags a, b and the field v it sorts by a, b, time and projects a, b, v,
\* time. read_group without an aggregate makes the same plan.
C34_ReadFilterPlanShape ==
    FilterPlanned =>
        LET schema == res.args[1]
            predicate == res.args[2]
            plan == res.r.val.plan
        IN  /\ res.r.err = "Ok"
            /\ Len(plan) = 3
            /\ plan[1].node = "TableScan"
            /\ plan[2].node = "Sort"
            /\ plan[2].by = NamesInSchemaOrder(schema, {"Tag"}, predicate)
                               \o NamesInSchemaOrder(schema, {"Timestamp"}, predicate)
            /\ plan[3].node = "Projection"
            /\ ExprNames(plan[3].exprs) =
                  NamesInSchemaOrder(schema, {"Tag"}, predicate)
                     \o NamesInSchemaOrder(schema, {"Field"}, predicate)
                     \o NamesInSchemaOrder(schema, {"Timestamp"}, predicate)
            /\ (/\ ExprNames(schema) = <<"a", "b", "v", "time">>
                /\ predicate.field_columns = <<>>)
                  => /\ plan[2].by = <<"a", "b", "time">>
                     /\ ExprNames(plan[3].exprs) = <<"a", "b", "v", "time">>
            /\ res.op = "read_group" =>
                  res.r = ReadFilterPlan(res.r.val.table_name, schema, predicate)

\* read_group without an aggregate planned a table of which the schema has
\* its columns mixed and the predicate leaves a field out
C34_Witness ==
    /\ res.op = "read_group" /\ res.args[3] = "None"
    /\ res.r.err = "Ok"
    /\ res.r.val.plan[2].by = <<"b", "a", "time">>
    /\ ExprNames(res.r.val.plan[3].exprs) = <<"b", "a", "w", "time">>
    /\ Len(res.args[1]) = 5

\* the plan of a table returned for read_group or read_window_aggregate
AggregatePlanned ==
    /\ res.op \in {"read_group", "read_window_aggregate"}
    /\ res.r.err = "Ok"

\* an expression of some node of the plan is a cast
CastsIn(plan) ==
    \E n \in 1..Len(plan) : \E i \in 1..Len(plan[n].exprs) :
        plan[n].exprs[i].make = "cast_int64"

\* C35: the plan of read_group and of read_window_aggregate for the aggregate
\* Count ends in a projection of the columns of the node before it, in which
\* every field the predicate includes is cast to Int64 under its own name and
\* the tags and the time are passed as they are; for any other aggregate no
\* node of the plan casts.
C35_CountCastToInt64 ==
    AggregatePlanned =>
        LET plan == res.r.val.plan
            fields == Range(NamesInSchemaOrder(res.args[1], {"Field"}, res.args[2]))
            last == plan[Len(plan)]
            before == plan[Len(plan) - 1]
        IN  IF res.args[3] = "Count"
            THEN /\ last.node = "Projection"
                 /\ ExprNames(last.exprs) = ExprNames(before.exprs)
                 /\ fields \subseteq Range(ExprNames(last.exprs))
                 /\ \A i \in 1..Len(last.exprs) :
                       /\ last.exprs[i].of = last.exprs[i].name
                       /\ last.exprs[i].make =
                             IF last.exprs[i].name \in fields THEN "cast_int64" ELSE "col"
                 /\ ~CastsIn(SubSeq(plan, 1, Len(plan) - 1))
            ELSE ~CastsIn(plan)

\* read_window_aggregate counted two fields of a table with tags
C35_Witness ==
    /\ AggregatePlanned
    /\ res.op = "read_window_aggregate"
    /\ res.args[3] = "Count"
    /\ ExprNames(res.r.val.plan[Len(res.r.val.plan)].exprs) = <<"b", "a", "time", "w", "v">>

\* the calls on one element that can return an error
FallibleCalls ==
    { "namespaces.create", "namespaces.update_table_limit",
      "namespaces.update_column_limit", "tables.create_or_get",
      "columns.create_or_get", "partitions.update_sort_key",
      "parquet_files.create", "parquet_files.flag_for_delete",
      "processed_tombstones.create" }

\* the errors of the calls on one element
CatalogErrors ==
    { "NameExists", "NamespaceNotFoundByName", "TableCreateLimitError",
      "ColumnCreateLimitError", "ColumnTypeMismatch", "PartitionNotFound",
      "FileExists", "ParquetRecordNotFound", "FileNotFound", "TombstoneNotFound",
      "ProcessTombstoneExists" }

\* C37: a call on one element that returns one of the errors of the catalog
\* leaves the store it works on as it was: the stage of the transaction, or
\* the live store for a one-shot handle.
C37_ErrorsLeaveStore ==
    [][ \A op \in FallibleCalls :
           (Called(op) /\ res'.r.err \in CatalogErrors)
              => live' = live /\ handle' = handle ]_vars

\* the eleven errors were returned, to a transaction and to a one-shot handle
C37_Witness ==
    /\ res.op = "processed_tombstones.create"
    /\ res.r.err = "ProcessTombstoneExists"
    /\ handle[1].kind = "Txn"
    /\ handle[1].stage # live

\* the requests of a batch succeed one after the other from store s
RECURSIVE EveryElementSucceeds(_, _)
EveryElementSucceeds(s, columns) ==
    \/ columns = <<>>
    \/ LET column == ColumnCreateOrGet(s, Head(columns)[1], Head(columns)[2],
                                       Head(columns)[3])
       IN  /\ column.r.err = "Ok"
           /\ EveryElementSucceeds(column.st, Tail(columns))

\* the store the call of the step works on, before and after the step
StoreBefore == IF handle[res'.task].kind = "Txn" THEN handle[res'.task].stage ELSE live

StoreAfter == IF handle[res'.task].kind = "Txn" THEN handle'[res'.task].stage ELSE live'

\* C38 as stated: columns.create_or_get_many succeeds exactly if every request
\* of the batch succeeds as a create_or_get, it returns the columns of the
\* requests in their order, and when it fails the store the handle works on
\* holds no column more than before.
C38_BatchAllOrNothing ==
    [][ Called("columns.create_or_get_many") =>
           LET columns == res'.args[1]
           IN  /\ res'.r.err = "Ok" <=> EveryElementSucceeds(StoreBefore, columns)
               /\ res'.r.err = "Ok" =>
                     /\ Len(res'.r.val) = Len(columns)
                     /\ \A i \in 1..Len(columns) :
                           /\ res'.r.val[i].name = columns[i][1]
                           /\ res'.r.val[i].table_id = columns[i][2]
                           /\ res'.r.val[i].column_type = columns[i][3]
               /\ res'.r.err # "Ok" => StoreAfter.columns = StoreBefore.columns ]_vars

\* C39 as stated: in every state each ProcessedTombstone of the store names a
\* parquet file that is in the store; parquet_files.delete_old leaves no
\* ProcessedTombstone of a file it removed.
C39_ProcessedTombstoneHasFile ==
    \A i \in 1..Len(live.processed_tombstones) :
       \E j \in 1..Len(live.parquet_files) :
          live.parquet_files[j].id = live.processed_tombstones[i].parquet_file_id

\* C40: when the handles handed out are dropped in the end, every pending
\* start_transaction or repositories call returns its handle in the end; a
\* commit or abort of a transaction leaves the Mutex with the task, and the
\* Mutex is released only in a step that drops the handle of its holder.
C40_HandleAcquired ==
    /\ \A t \in Tasks : Waiting(t) ~> (handle[t].kind # "None")
    /\ [][ /\ \A t \in Tasks :
                 (~handle[t].finalized /\ handle'[t].finalized) =>
                     holder = t /\ holder' = t
           /\ (holder # NoTask /\ holder' # holder) =>
                 handle[holder].kind # "None" /\ handle'[holder].kind = "None" ]_vars

\* a call is pending while the transaction of the other task, committed or
\* aborted and not dropped, holds the Mutex
C40_Witness ==
    /\ holder = 1 /\ handle[1].kind = "Txn" /\ handle[1].finalized
    /\ Waiting(2)

====
